---------------------------- MODULE Spec2Model ----------------------------
(***************************************************************************)
(* A model of the reversi engine: the bitboard Board (crates/core board.rs)*)
(* the Game wrapper (crates/core game.rs) and the search (crates/com       *)
(* com.rs).                                                                *)
(*                                                                         *)
(* A PosSet is modelled as the set of its one-bit indices, so that shifts, *)
(* masks and xor are the bit operations of the code and not set algebra on *)
(* board coordinates.  An Option is a sequence: <<>> is None, <<v>> is      *)
(* Some(v).                                                                *)
(***************************************************************************)
EXTENDS Integers, Sequences, FiniteSets, TLC

VARIABLES
    state,        \* Game.state: "Turn" or "GameOver"
    board,        \* Game.board: the board in the frame of the side to move
    turn_color,   \* Game.turn_color: "Black" or "White"
    history,      \* Game.history: the boards before each successful put
    ret,          \* the last put_disk call: its argument and its Result
    line,         \* the player driving the game (0: any legal move)
    bd,           \* a Board value under the Board operations
    nops,         \* the number of Board operations applied to bd
    nm,           \* the result of the last search on Game.board
    inp,          \* the input of a function applied on its own
    out,          \* the result of the function applied to inp
    wu            \* a WeightUpdater (with its evaluator's Weight)

gameVars == <<state, board, turn_color, history, ret, line>>
boardVars == <<bd, nops>>
searchVars == <<nm>>
pureVars == <<inp, out>>
weightVars == <<wu>>
vars ==
    <<state, board, turn_color, history, ret, line, bd, nops, nm, inp, out,
      wu>>

---------------------------------------------------------------------------
(* Bounds of the exploration                                               *)

\* plies for which the free player tries every legal move
MaxFree == 4
\* number of scripted players that play a whole game
NumLines == 4
\* number of Board operations applied in a row
MaxOps == 2
\* number of cells (A1, B2, C3, ...) at which rejected puts are tried
NumProbes == 4
\* number of cells (D1, D2, D3, ...) the Board operations are applied to
NumCells == 4
\* largest index handed to from_pattern_index by the Board operations
MaxIndex == 8
\* number of cells outside the pattern Diag4 (E1, D2, ...) that hold any
\* of empty, mine, others on the boards whose pattern index is taken
NumExtra == 2
\* largest mid_depth of a Com
MaxMid == 2
\* the non-zero value of the wld_depth and exact_depth of a Com, and the
\* number of empty cells up to which every board of a game is searched
MaxLeft == 4
\* largest depth at which alpha_beta and nega_max are compared on a board
\* with more than MaxLeft empty cells
MaxDepth == 3
\* plies after which the boards of a game are no longer searched (until
\* MaxLeft empty cells are left); a recorded game is searched to its end
MaxOpening == 1

---------------------------------------------------------------------------
(* Pos and PosSet                                                          *)

SIZE == 8

AllPos == 0 .. (SIZE * SIZE - 1)

None == <<>>
Some(v) == <<v>>

\* Pos::from_xy: the bit index of column x, row y
from_xy(x, y) ==
    IF 0 <= x /\ x < SIZE /\ 0 <= y /\ y < SIZE
    THEN Some(x + SIZE * y)
    ELSE None

PosXY(x, y) == from_xy(x, y)[1]
PosX(pos) == pos % SIZE
PosY(pos) == pos \div SIZE

A1 == PosXY(0, 0)
H8 == PosXY(7, 7)
C3 == PosXY(2, 2)
D3 == PosXY(3, 2)
E3 == PosXY(4, 2)
C5 == PosXY(2, 4)
D4 == PosXY(3, 3)
E4 == PosXY(4, 3)
D5 == PosXY(3, 4)
E5 == PosXY(4, 4)

\* PosSet::ALL and PosSet::new()
ALL == AllPos
EmptySet == {}

bit(pos) == {pos}
BitAnd(a, c) == a \cap c
BitOr(a, c) == a \cup c
BitXor(a, c) == (a \ c) \cup (c \ a)
Not(a) == ALL \ a
\* a << n and a >> n on the 64-bit word: bits shifted out are lost
Shl(a, n) == {i + n : i \in a} \cap ALL
Shr(a, n) == {i - n : i \in a} \cap ALL
is_empty(a) == a = {}
count(a) == Cardinality(a)
contains(a, pos) == BitAnd(a, bit(pos)) # {}

---------------------------------------------------------------------------
(* Board                                                                   *)

Board(m, o) == [mine_disks |-> m, others_disks |-> o]

Board_new ==
    Board(BitOr(BitOr(EmptySet, bit(E4)), bit(D5)),
          BitOr(BitOr(EmptySet, bit(D4)), bit(E5)))

Board_empty == Board(EmptySet, EmptySet)

get_disk(b, pos) ==
    IF contains(b.mine_disks, pos) THEN Some("Mine")
    ELSE IF contains(b.others_disks, pos) THEN Some("Others")
    ELSE None

\* (mutant) the disk is inserted and the other side's bit is not cleared
set_disk_noremove(b, pos, disk) ==
    LET mask == BitOr(EmptySet, bit(pos))
    IN  IF disk = "Mine"
        THEN Board(BitOr(b.mine_disks, mask), b.others_disks)
        ELSE Board(b.mine_disks, BitOr(b.others_disks, mask))

set_disk(b, pos, disk) ==
    LET mask == BitOr(EmptySet, bit(pos))
    IN  IF disk = "Mine"
        THEN Board(BitOr(b.mine_disks, mask), BitAnd(b.others_disks, Not(mask)))
        ELSE Board(BitAnd(b.mine_disks, Not(mask)), BitOr(b.others_disks, mask))

unset_disk(b, pos) ==
    LET mask == BitOr(EmptySet, bit(pos))
    IN  Board(BitAnd(b.mine_disks, Not(mask)), BitAnd(b.others_disks, Not(mask)))

count_disk(b, disk) ==
    IF disk = Some("Mine") THEN count(b.mine_disks)
    ELSE IF disk = Some("Others") THEN count(b.others_disks)
    ELSE SIZE * SIZE - count(b.mine_disks) - count(b.others_disks)

count_all_disks(b) == count(b.mine_disks) + count(b.others_disks)

reverse(b) == Board(b.others_disks, b.mine_disks)

top_bottom_mask == ALL

\* (mutant) the column mask forgotten: horizontal runs wrap between rows
left_right_mask_none == ALL

left_right_mask ==
    Not(BitOr({PosXY(0, j) : j \in 0 .. SIZE - 1},
              {PosXY(SIZE - 1, j) : j \in 0 .. SIZE - 1}))

\* one `m |= (m << offset) & e` step, and its right-shift twin; the word m
\* is the argument of a function, so that it is computed once
StepShl(m, e, offset) ==
    LET step[w \in SUBSET ALL] == BitOr(w, BitAnd(Shl(w, offset), e))
    IN  step[m]
StepShr(m, e, offset) ==
    LET step[w \in SUBSET ALL] == BitOr(w, BitAnd(Shr(w, offset), e))
    IN  step[m]

\* (mutant) a run is captured without a disk of the mover closing it
fs_right_moves_noclose(b, pos, mask, offset) ==
    LET e == BitAnd(b.others_disks, mask)
        m0 == BitAnd(Shl(bit(pos), offset), e)
        m1 == StepShl(m0, e, offset)
        m2 == StepShl(m1, e, offset)
        m3 == StepShl(m2, e, offset)
        m4 == StepShl(m3, e, offset)
        m5 == StepShl(m4, e, offset)
    IN  m5

\* the closures of flipped_set_unchecked
fs_right_moves(b, pos, mask, offset) ==
    LET e == BitAnd(b.others_disks, mask)
        m0 == BitAnd(Shl(bit(pos), offset), e)
        m1 == StepShl(m0, e, offset)
        m2 == StepShl(m1, e, offset)
        m3 == StepShl(m2, e, offset)
        m4 == StepShl(m3, e, offset)
        m5 == StepShl(m4, e, offset)
        o0 == BitAnd(Shr(b.mine_disks, offset), e)
        o1 == StepShr(o0, e, offset)
        o2 == StepShr(o1, e, offset)
        o3 == StepShr(o2, e, offset)
        o4 == StepShr(o3, e, offset)
        o5 == StepShr(o4, e, offset)
    IN  BitAnd(m5, o5)

fs_left_moves(b, pos, mask, offset) ==
    LET e == BitAnd(b.others_disks, mask)
        m0 == BitAnd(Shr(bit(pos), offset), e)
        m1 == StepShr(m0, e, offset)
        m2 == StepShr(m1, e, offset)
        m3 == StepShr(m2, e, offset)
        m4 == StepShr(m3, e, offset)
        m5 == StepShr(m4, e, offset)
        o0 == BitAnd(Shl(b.mine_disks, offset), e)
        o1 == StepShl(o0, e, offset)
        o2 == StepShl(o1, e, offset)
        o3 == StepShl(o2, e, offset)
        o4 == StepShl(o3, e, offset)
        o5 == StepShl(o4, e, offset)
    IN  BitAnd(m5, o5)

flipped_set_unchecked(b, pos) ==
    BitOr(BitOr(BitOr(BitOr(BitOr(BitOr(BitOr(
        fs_left_moves(b, pos, left_right_mask, 1),
        fs_left_moves(b, pos, left_right_mask, 9)),
        fs_left_moves(b, pos, top_bottom_mask, 8)),
        fs_left_moves(b, pos, left_right_mask, 7)),
        fs_right_moves(b, pos, left_right_mask, 1)),
        fs_right_moves(b, pos, left_right_mask, 9)),
        fs_right_moves(b, pos, top_bottom_mask, 8)),
        fs_right_moves(b, pos, left_right_mask, 7))

\* (mutant) the occupancy check is left out
flipped_set_nocheck(b, pos) ==
    LET flipped == flipped_set_unchecked(b, pos)
    IN  IF ~is_empty(flipped) THEN Some(flipped) ELSE None

flipped_set(b, pos) ==
    IF contains(BitOr(b.mine_disks, b.others_disks), pos)
    THEN None
    ELSE LET flipped == flipped_set_unchecked(b, pos)
         IN  IF ~is_empty(flipped) THEN Some(flipped) ELSE None

\* (mutant) the played cell is not added
flipped_nopos(b, pos) ==
    LET fs == flipped_set(b, pos)
    IN  IF fs = None
        THEN None
        ELSE Some(Board(BitXor(b.others_disks, fs[1]),
                        BitXor(b.mine_disks, fs[1])))

\* (mutant) the captured cells are not taken from the opponent
flipped_keep(b, pos) ==
    LET fs == flipped_set(b, pos)
    IN  IF fs = None
        THEN None
        ELSE Some(Board(b.others_disks,
                        BitXor(BitXor(b.mine_disks, fs[1]), bit(pos))))

\* (mutant) the result stays in the frame of the side that moved
flipped_noswap(b, pos) ==
    LET fs == flipped_set(b, pos)
    IN  IF fs = None
        THEN None
        ELSE Some(Board(BitXor(BitXor(b.mine_disks, fs[1]), bit(pos)),
                        BitXor(b.others_disks, fs[1])))

flipped(b, pos) ==
    LET fs == flipped_set(b, pos)
    IN  IF fs = None
        THEN None
        ELSE Some(Board(BitXor(b.others_disks, fs[1]),
                        BitXor(BitXor(b.mine_disks, fs[1]), bit(pos))))

\* the number of cells a put at pos captures: flipped_set(pos).count()
flip_count(b, pos) == count(flipped_set(b, pos)[1])

\* (mutant) an occupied cell is not excluded
can_flip_occupied(b, pos) == ~is_empty(flipped_set_unchecked(b, pos))

can_flip(b, pos) ==
    /\ ~contains(BitOr(b.mine_disks, b.others_disks), pos)
    /\ ~is_empty(flipped_set_unchecked(b, pos))

\* the closures of flip_candidates
fc_right_moves(b, mask, offset) ==
    LET e == BitAnd(b.others_disks, mask)
        m0 == BitAnd(Shl(b.mine_disks, offset), e)
        m1 == StepShl(m0, e, offset)
        m2 == StepShl(m1, e, offset)
        m3 == StepShl(m2, e, offset)
        m4 == StepShl(m3, e, offset)
        m5 == StepShl(m4, e, offset)
    IN  Shl(m5, offset)

fc_left_moves(b, mask, offset) ==
    LET e == BitAnd(b.others_disks, mask)
        m0 == BitAnd(Shr(b.mine_disks, offset), e)
        m1 == StepShr(m0, e, offset)
        m2 == StepShr(m1, e, offset)
        m3 == StepShr(m2, e, offset)
        m4 == StepShr(m3, e, offset)
        m5 == StepShr(m4, e, offset)
    IN  Shr(m5, offset)

flip_candidates(b) ==
    LET empty_cells == BitAnd(Not(b.mine_disks), Not(b.others_disks))
    IN  BitAnd(empty_cells,
            BitOr(BitOr(BitOr(BitOr(BitOr(BitOr(BitOr(
                fc_left_moves(b, left_right_mask, 1),
                fc_left_moves(b, left_right_mask, 9)),
                fc_left_moves(b, top_bottom_mask, 8)),
                fc_left_moves(b, left_right_mask, 7)),
                fc_right_moves(b, left_right_mask, 1)),
                fc_right_moves(b, left_right_mask, 9)),
                fc_right_moves(b, top_bottom_mask, 8)),
                fc_right_moves(b, left_right_mask, 7)))

can_play(b) == ~is_empty(flip_candidates(b))

\* Board::game_over() of the search's Board: the board is full, or a side
\* has no disk left, or neither side has a legal move
game_over(b) ==
    \/ count_disk(b, None) = 0
    \/ count_disk(b, Some("Mine")) = 0
    \/ count_disk(b, Some("Others")) = 0
    \/ (~can_play(b) /\ ~can_play(reverse(b)))

\* PosSetIter: the positions of a set in ascending bit order
PosSetIter(a) ==
    [k \in 1 .. Cardinality(a) |->
        CHOOSE i \in a : Cardinality({j \in a : j < i}) = k - 1]

\* AllFlipped: the (pos, board) pairs the iterator yields, in order
all_flipped(b) ==
    LET cs == PosSetIter(flip_candidates(b))
    IN  [k \in 1 .. Len(cs) |->
            <<cs[k],
              LET fl == flipped_set_unchecked(b, cs[k])
              IN  Board(BitXor(b.others_disks, fl),
                        BitXor(BitXor(b.mine_disks, fl), bit(cs[k])))>>]

\* the loop of from_pattern_index, from the k-th cell of the pattern on
RECURSIVE fpi_loop(_, _, _, _)
fpi_loop(b, pattern, k, n) ==
    IF k > Len(pattern) THEN b
    ELSE LET b1 == IF n % 3 = 1 THEN set_disk(b, pattern[k], "Mine")
                   ELSE IF n % 3 = 2 THEN set_disk(b, pattern[k], "Others")
                   ELSE b
             n1 == n \div 3
         IN  IF n1 = 0 THEN b1 ELSE fpi_loop(b1, pattern, k + 1, n1)

\* (mutant) the digits are given to the cells from the last one backward
from_pattern_index_bigendian(pattern, index) ==
    fpi_loop(Board_empty,
             [k \in DOMAIN pattern |-> pattern[Len(pattern) + 1 - k]],
             1, index)

from_pattern_index(pattern, index) == fpi_loop(Board_empty, pattern, 1, index)

\* the loop of pattern_index, from the k-th cell of the pattern on
RECURSIVE pi_loop(_, _, _, _, _)
pi_loop(b, pattern, k, n, bt) ==
    IF k > Len(pattern) THEN n
    ELSE LET d == get_disk(b, pattern[k])
             v == IF d = None THEN 0 ELSE IF d = Some("Mine") THEN 1 ELSE 2
         IN  pi_loop(b, pattern, k + 1, n + bt * v, bt * 3)

\* (mutant) bit starts at 3
pattern_index_bit3(b, pattern) == pi_loop(b, pattern, 1, 0, 3)

pattern_index(b, pattern) == pi_loop(b, pattern, 1, 0, 1)

\* PATTERNS "Diag4" and "Diag5" of the pattern table
Diag4 == <<PosXY(3, 0), PosXY(2, 1), PosXY(1, 2), PosXY(0, 3)>>
Diag5 == <<PosXY(4, 0), PosXY(3, 1), PosXY(2, 2), PosXY(1, 3), PosXY(0, 4)>>
\* PATTERNS "Edge", the longest pattern of the table: 3^10 indices in a u16
Edge == <<PosXY(0, 0), PosXY(1, 0), PosXY(2, 0), PosXY(3, 0), PosXY(4, 0),
          PosXY(5, 0), PosXY(6, 0), PosXY(7, 0), PosXY(1, 1), PosXY(6, 1)>>

---------------------------------------------------------------------------
(* Evaluators                                                              *)

U16_MAX == 65535

I32_MAX == 2147483647
I32_MIN == -I32_MAX - 1

DISK_VALUE == 1000

\* CountEvaluator::evaluate, for the side to move
CountEvaluator_evaluate(b, over) ==
    DISK_VALUE * (count_disk(b, Some("Mine")) - count_disk(b, Some("Others")))

\* DummyEvaluator::evaluate of the search's tests: what the body of the
\* loops adds to value at cell (x, y), the inner loop over x, and the outer
\* loop over y (both loops run over the SIZE = 8 columns and rows)
DummyEvaluator_cell(b, x, y) ==
    IF (x + SIZE * y) \in b.mine_disks THEN x * SIZE + y
    ELSE IF (x + SIZE * y) \in b.others_disks THEN -(x * SIZE + y)
    ELSE 0

DummyEvaluator_row(b, y) ==
    DummyEvaluator_cell(b, 0, y) + DummyEvaluator_cell(b, 1, y)
        + DummyEvaluator_cell(b, 2, y) + DummyEvaluator_cell(b, 3, y)
        + DummyEvaluator_cell(b, 4, y) + DummyEvaluator_cell(b, 5, y)
        + DummyEvaluator_cell(b, 6, y) + DummyEvaluator_cell(b, 7, y)

DummyEvaluator_evaluate(b, over) ==
    DummyEvaluator_row(b, 0) + DummyEvaluator_row(b, 1)
        + DummyEvaluator_row(b, 2) + DummyEvaluator_row(b, 3)
        + DummyEvaluator_row(b, 4) + DummyEvaluator_row(b, 5)
        + DummyEvaluator_row(b, 6) + DummyEvaluator_row(b, 7)

Evaluators == {"Count", "Dummy"}

\* Evaluate::evaluate, dispatched on the evaluator
evaluate(ev, b, over) ==
    IF ev = "Count"
    THEN CountEvaluator_evaluate(b, over)
    ELSE DummyEvaluator_evaluate(b, over)

---------------------------------------------------------------------------
(* Search.  The search of com.rs names the side to move by a colour; here  *)
(* a node is the board in the frame of its side to move, so a child is the *)
(* board all_flipped yields and a pass is reverse().  A result is the pair *)
(* (score, pos) with the nodes the call added to visited_nodes, in evals  *)
(* the number of calls of Evaluate::evaluate it made and, in terms, how    *)
(* many of these calls passed game_over = true.                            *)

RECURSIVE alpha_beta(_, _, _, _, _, _)
RECURSIVE ab_loop(_, _, _, _, _, _, _, _, _, _)

\* (mutant) a move whose value only equals alpha replaces the best move
ab_body_ge(ev, moves, k, depth, alpha, beta, best_pos, nodes, evals, terms, r) ==
    IF -r.score >= alpha
    THEN IF -r.score >= beta
         THEN [cut |-> TRUE, alpha |-> -r.score,
               best_pos |-> Some(<<moves[k][1], -r.score>>),
               nodes |-> nodes + r.nodes, evals |-> evals + r.evals,
               terms |-> terms + r.terms]
         ELSE ab_loop(ev, moves, k + 1, depth, -r.score, beta,
                      Some(<<moves[k][1], -r.score>>),
                      nodes + r.nodes, evals + r.evals, terms + r.terms)
    ELSE ab_loop(ev, moves, k + 1, depth, alpha, beta, best_pos,
                 nodes + r.nodes, evals + r.evals, terms + r.terms)

\* the body of the loop of alpha_beta for the k-th move of all_flipped; r is
\* the result of the recursive call on the board of that move, -r.score is
\* `value`; cut tells that the loop was left by the `alpha >= beta` return
ab_body(ev, moves, k, depth, alpha, beta, best_pos, nodes, evals, terms, r) ==
    IF -r.score > alpha
    THEN IF -r.score >= beta
         THEN [cut |-> TRUE, alpha |-> -r.score,
               best_pos |-> Some(<<moves[k][1], -r.score>>),
               nodes |-> nodes + r.nodes, evals |-> evals + r.evals,
               terms |-> terms + r.terms]
         ELSE ab_loop(ev, moves, k + 1, depth, -r.score, beta,
                      Some(<<moves[k][1], -r.score>>),
                      nodes + r.nodes, evals + r.evals, terms + r.terms)
    ELSE ab_loop(ev, moves, k + 1, depth, alpha, beta, best_pos,
                 nodes + r.nodes, evals + r.evals, terms + r.terms)

\* the loop of alpha_beta over all_flipped, from the k-th move on
ab_loop(ev, moves, k, depth, alpha, beta, best_pos, nodes, evals, terms) ==
    IF k > Len(moves)
    THEN [cut |-> FALSE, alpha |-> alpha, best_pos |-> best_pos,
          nodes |-> nodes, evals |-> evals,
          terms |-> terms]
    ELSE ab_body(ev, moves, k, depth, alpha, beta, best_pos, nodes, evals, terms,
                 alpha_beta(ev, moves[k][2], depth - 1, -beta, -alpha, FALSE))

\* the result of the search after a pass: the negated score, no move
passed(r) ==
    [score |-> -r.score, pos |-> None, nodes |-> r.nodes, evals |-> r.evals,
     terms |-> r.terms]

\* (mutant) a node that expanded moves is counted as well
ab_after_countall(ev, b, depth, alpha, beta, in_pass, has_candidate, l) ==
    IF l.cut
    THEN [score |-> beta, pos |-> None,
          nodes |-> l.nodes + 1, evals |-> l.evals, terms |-> l.terms]
    ELSE IF l.best_pos # None
    THEN [score |-> l.best_pos[1][2], pos |-> Some(l.best_pos[1][1]),
          nodes |-> l.nodes + 1, evals |-> l.evals, terms |-> l.terms]
    ELSE IF has_candidate
    THEN [score |-> l.alpha, pos |-> None,
          nodes |-> l.nodes + 1, evals |-> l.evals, terms |-> l.terms]
    ELSE IF in_pass
    THEN [score |-> evaluate(ev, b, TRUE), pos |-> None,
          nodes |-> 1, evals |-> 1, terms |-> 1]
    ELSE passed(alpha_beta(ev, reverse(b), depth, -beta, -alpha, TRUE))

\* (mutant) the search after a pass runs one ply less deep
ab_after_passdec(ev, b, depth, alpha, beta, in_pass, has_candidate, l) ==
    IF l.cut
    THEN [score |-> beta, pos |-> None, nodes |-> l.nodes, evals |-> l.evals, terms |-> l.terms]
    ELSE IF l.best_pos # None
    THEN [score |-> l.best_pos[1][2], pos |-> Some(l.best_pos[1][1]),
          nodes |-> l.nodes, evals |-> l.evals, terms |-> l.terms]
    ELSE IF has_candidate
    THEN [score |-> l.alpha, pos |-> None,
          nodes |-> l.nodes, evals |-> l.evals, terms |-> l.terms]
    ELSE IF in_pass
    THEN [score |-> evaluate(ev, b, TRUE), pos |-> None,
          nodes |-> 1, evals |-> 1, terms |-> 1]
    ELSE passed(alpha_beta(ev, reverse(b), depth - 1, -beta, -alpha, TRUE))

\* alpha_beta after its loop; has_candidate tells that all_flipped yielded
\* a move and l is what the loop left
ab_after(ev, b, depth, alpha, beta, in_pass, has_candidate, l) ==
    IF l.cut
    THEN [score |-> beta, pos |-> None, nodes |-> l.nodes, evals |-> l.evals, terms |-> l.terms]
    ELSE IF l.best_pos # None
    THEN [score |-> l.best_pos[1][2], pos |-> Some(l.best_pos[1][1]),
          nodes |-> l.nodes, evals |-> l.evals, terms |-> l.terms]
    ELSE IF has_candidate
    THEN [score |-> l.alpha, pos |-> None,
          nodes |-> l.nodes, evals |-> l.evals, terms |-> l.terms]
    ELSE IF in_pass
    THEN [score |-> evaluate(ev, b, TRUE), pos |-> None,
          nodes |-> 1, evals |-> 1, terms |-> 1]
    ELSE passed(alpha_beta(ev, reverse(b), depth, -beta, -alpha, TRUE))

\* alpha_beta below its depth test, on the moves all_flipped yields
ab_moves(ev, b, depth, alpha, beta, in_pass, moves) ==
    ab_after(ev, b, depth, alpha, beta, in_pass, Len(moves) > 0,
             ab_loop(ev, moves, 1, depth, alpha, beta, None, 0, 0, 0))

alpha_beta(ev, b, depth, alpha, beta, in_pass) ==
    IF depth = 0
    THEN [score |-> evaluate(ev, b, game_over(b)), pos |-> None,
          nodes |-> 1, evals |-> 1,
          terms |-> IF game_over(b) THEN 1 ELSE 0]
    ELSE ab_moves(ev, b, depth, alpha, beta, in_pass, all_flipped(b))

RECURSIVE nega_max(_, _, _, _)
RECURSIVE nega_loop(_, _, _, _, _, _, _, _, _)

\* the body of the loop of nega_max for the k-th move of all_flipped; r is
\* the result of the recursive call on the board of that move
nega_body(ev, moves, k, depth, max, best_pos, nodes, evals, terms, r) ==
    IF -r.score > max
    THEN nega_loop(ev, moves, k + 1, depth, -r.score,
                   Some(<<moves[k][1], -r.score>>),
                   nodes + r.nodes, evals + r.evals, terms + r.terms)
    ELSE nega_loop(ev, moves, k + 1, depth, max, best_pos,
                   nodes + r.nodes, evals + r.evals, terms + r.terms)

\* the loop of nega_max over all_flipped, from the k-th move on
nega_loop(ev, moves, k, depth, max, best_pos, nodes, evals, terms) ==
    IF k > Len(moves)
    THEN [max |-> max, best_pos |-> best_pos, nodes |-> nodes, evals |-> evals,
          terms |-> terms]
    ELSE nega_body(ev, moves, k, depth, max, best_pos, nodes, evals, terms,
                   nega_max(ev, moves[k][2], depth - 1, FALSE))

\* nega_max after its loop
nega_after(ev, b, depth, in_pass, has_candidate, l) ==
    IF l.best_pos # None
    THEN [score |-> l.best_pos[1][2], pos |-> Some(l.best_pos[1][1]),
          nodes |-> l.nodes, evals |-> l.evals, terms |-> l.terms]
    ELSE IF has_candidate
    THEN [score |-> l.max, pos |-> None,
          nodes |-> l.nodes, evals |-> l.evals, terms |-> l.terms]
    ELSE IF in_pass
    THEN [score |-> evaluate(ev, b, TRUE), pos |-> None,
          nodes |-> 1, evals |-> 1, terms |-> 1]
    ELSE passed(nega_max(ev, reverse(b), depth, TRUE))

\* nega_max below its depth test, on the moves all_flipped yields
nega_moves(ev, b, depth, in_pass, moves) ==
    nega_after(ev, b, depth, in_pass, Len(moves) > 0,
               nega_loop(ev, moves, 1, depth, I32_MIN, None, 0, 0, 0))

nega_max(ev, b, depth, in_pass) ==
    IF depth = 0
    THEN [score |-> evaluate(ev, b, game_over(b)), pos |-> None,
          nodes |-> 1, evals |-> 1,
          terms |-> IF game_over(b) THEN 1 ELSE 0]
    ELSE nega_moves(ev, b, depth, in_pass, all_flipped(b))

NextMove(r) == [best_pos |-> r.pos, visited_nodes |-> r.nodes, score |-> r.score]

\* Com::end_search and Com::mid_search: one alpha_beta call from the root,
\* on the board, depth and window of the plan
search(ev, plan) ==
    NextMove(alpha_beta(ev, plan.b, plan.depth, plan.alpha, plan.beta, FALSE))

Color_reverse(c) == IF c = "Black" THEN "White" ELSE "Black"

\* the board of the search, which holds its disks by colour: the board b of
\* the side `color` to move, the same position with the colours exchanged,
\* and back to the frame of the side `color`
ColorBoard(b, color) ==
    IF color = "Black"
    THEN [black |-> b.mine_disks, white |-> b.others_disks]
    ELSE [black |-> b.others_disks, white |-> b.mine_disks]
ColorBoard_reverse(cb) == [black |-> cb.white, white |-> cb.black]
FrameOf(cb, color) ==
    IF color = "Black" THEN Board(cb.black, cb.white)
    ELSE Board(cb.white, cb.black)

\* (mutant) the win/loss/draw threshold is tested before the exact one
next_move_plan_wldfirst(com, b, color) ==
    LET left == count_disk(b, None)
    IN  IF left <= com.wld_depth
        THEN [b |-> b, depth |-> left, alpha |-> -I32_MAX, beta |-> 1]
        ELSE IF left <= com.exact_depth
        THEN [b |-> b, depth |-> left, alpha |-> -I32_MAX, beta |-> I32_MAX]
        ELSE [b |-> b, depth |-> com.mid_depth,
              alpha |-> -I32_MAX, beta |-> I32_MAX]

\* (mutant) the exact search stops one ply before the end of the game
next_move_plan_shallow(com, b, color) ==
    LET left == count_disk(b, None)
    IN  IF left <= com.exact_depth
        THEN [b |-> b, depth |-> IF left > 0 THEN left - 1 ELSE 0,
              alpha |-> -I32_MAX, beta |-> I32_MAX]
        ELSE IF left <= com.wld_depth
        THEN [b |-> b, depth |-> left, alpha |-> -I32_MAX, beta |-> 1]
        ELSE [b |-> b, depth |-> com.mid_depth,
              alpha |-> -I32_MAX, beta |-> I32_MAX]

\* Com::next_move of a Com {mid_depth, wld_depth, exact_depth}: the board,
\* depth and window it hands to end_search or to mid_search
next_move_plan(com, b, color) ==
    LET left == count_disk(b, None)
    IN  IF left <= com.exact_depth
        THEN [b |-> b, depth |-> left, alpha |-> -I32_MAX, beta |-> I32_MAX]
        ELSE IF left <= com.wld_depth
        THEN [b |-> b, depth |-> left, alpha |-> -I32_MAX, beta |-> 1]
        ELSE IF (color = "White" /\ com.mid_depth % 2 = 0)
                  \/ (color = "Black" /\ com.mid_depth % 2 = 1)
        THEN [b |-> FrameOf(ColorBoard_reverse(ColorBoard(b, color)),
                            Color_reverse(color)),
              depth |-> com.mid_depth, alpha |-> -I32_MAX, beta |-> I32_MAX]
        ELSE [b |-> b, depth |-> com.mid_depth,
              alpha |-> -I32_MAX, beta |-> I32_MAX]

next_move(com, ev, b, color) == search(ev, next_move_plan(com, b, color))

---------------------------------------------------------------------------
(* Game                                                                    *)

is_game_over == state = "GameOver"

Game_turn_color == IF is_game_over THEN None ELSE Some(turn_color)

\* the recorded games the scripted players replay: the hands of the `pass`
\* test of board.rs (D3 C3 F5 D2 D1 E1 B2 C1, after which the side to
\* move has to pass), and a game in which white loses its last disk after
\* nine plies (E6 F4 E3 F6 G5 D6 E7 F5 C5)
Scripts ==
    << <<PosXY(3, 2), PosXY(2, 2), PosXY(5, 4), PosXY(3, 1),
         PosXY(3, 0), PosXY(4, 0), PosXY(1, 1), PosXY(2, 0)>>,
       <<PosXY(4, 5), PosXY(5, 3), PosXY(4, 2), PosXY(5, 5), PosXY(6, 4),
         PosXY(3, 5), PosXY(4, 6), PosXY(5, 4), PosXY(2, 4)>> >>

\* the moves the driving player may try on the current board: player 0
\* tries every legal move of the first plies, a player -k replays the k-th
\* recorded game and then goes on like player k, a player k > 0 picks one
\* legal move by its rank
FreeMoves ==
    IF line = 0
    THEN IF Len(history) < MaxFree THEN flip_candidates(board) ELSE {}
    ELSE IF line < 0 /\ Len(history) < Len(Scripts[-line])
    THEN {Scripts[-line][Len(history) + 1]} \cap flip_candidates(board)
    ELSE LET cs == PosSetIter(flip_candidates(board))
             k == IF line < 0 THEN -line ELSE line
         IN  IF cs = <<>> THEN {}
             ELSE {cs[1 + ((k * Len(history) + k) % Len(cs))]}

\* the cells at which the driving player also tries rejected puts
ProbeCells == {PosXY(i, i) : i \in 0 .. NumProbes - 1}

\* no search was run on the current board
NoMove == [kind |-> "none"]

\* no function is applied on its own
NoInput == [op |-> "none"]
NoOutput == [op |-> "none"]
NoUpdater == [op |-> "none"]

NoRet == [pos |-> -1, result |-> <<>>, flipped |-> None]

\* (mutant) the capture is looked up before the game state
put_error_swapped(pos) ==
    IF flipped(board, pos) = None THEN Some(<<"CannotPut", pos>>)
    ELSE IF is_game_over THEN Some(<<"GameOver">>)
    ELSE None

\* the error put_disk returns before it changes anything, or None
put_error(pos) ==
    IF is_game_over THEN Some(<<"GameOver">>)
    ELSE IF flipped(board, pos) = None THEN Some(<<"CannotPut", pos>>)
    ELSE None

\* (mutant) the game ends as soon as the next mover has no move: no pass
put_disk_nopass(pos) ==
    LET err == put_error(pos)
    IN  IF err # None
        THEN /\ ret' = [pos |-> pos, result |-> <<"Err", err[1]>>,
                        flipped |-> None]
             /\ UNCHANGED <<state, board, turn_color, history>>
        ELSE LET fl == flipped(board, pos)
                 b1 == fl[1]
                 c1 == Color_reverse(turn_color)
             IN  /\ history' = Append(history, board)
                 /\ ret' = [pos |-> pos, result |-> <<"Ok">>, flipped |-> fl]
                 /\ board' = b1
                 /\ turn_color' = c1
                 /\ state' = IF can_play(b1) THEN state ELSE "GameOver"

\* Game::put_disk(pos)
put_disk(pos) ==
    LET err == put_error(pos)
    IN  IF err # None
        THEN /\ ret' = [pos |-> pos, result |-> <<"Err", err[1]>>,
                        flipped |-> None]
             /\ UNCHANGED <<state, board, turn_color, history>>
        ELSE \E fl \in {flipped(board, pos)} :
             \E b1 \in {fl[1]} :
             \E b2 \in {reverse(b1)} :
             LET c1 == Color_reverse(turn_color)
                 c2 == Color_reverse(c1)
             IN  /\ history' = Append(history, board)
                 /\ ret' = [pos |-> pos, result |-> <<"Ok">>, flipped |-> fl]
                 /\ IF can_play(b1)
                    THEN /\ board' = b1
                         /\ turn_color' = c1
                         /\ state' = state
                    ELSE IF can_play(b2)
                    THEN /\ board' = b2
                         /\ turn_color' = c2
                         /\ state' = state
                    ELSE /\ board' = reverse(b2)
                         /\ turn_color' = Color_reverse(c2)
                         /\ state' = "GameOver"

\* Game::disk2color, color2disk, count_disk, get_disk
\* (mutant) the disks of the side to move are given the other colour
disk2color_swapped(disk) ==
    IF disk = "Mine" THEN Color_reverse(turn_color) ELSE turn_color

disk2color(disk) == IF disk = "Mine" THEN turn_color ELSE Color_reverse(turn_color)
color2disk(color) == IF color = turn_color THEN "Mine" ELSE "Others"
Game_count_disk(color) ==
    count_disk(board, IF color = None THEN None ELSE Some(color2disk(color[1])))
Game_get_disk(pos) ==
    LET d == get_disk(board, pos)
    IN  IF d = None THEN None ELSE Some(disk2color(d[1]))

\* a put the rules allow
PutLegal ==
    /\ \E pos \in FreeMoves : put_disk(pos)
    /\ UNCHANGED <<line, boardVars, searchVars, pureVars, weightVars>>

\* a put the game rejects: at a probe cell, or after the game is over
PutRejected ==
    /\ \E pos \in ProbeCells \ flip_candidates(board) : put_disk(pos)
    /\ UNCHANGED <<line, boardVars, searchVars, pureVars, weightVars>>

Init ==
    /\ state = "Turn"
    /\ board = Board_new
    /\ turn_color = "Black"
    /\ history = <<>>
    /\ ret = NoRet
    /\ line \in (-Len(Scripts)) .. NumLines
    /\ bd = Board_new
    /\ nops = 0
    /\ nm = NoMove
    /\ inp = NoInput
    /\ out = NoOutput
    /\ wu = NoUpdater

Next == PutLegal \/ PutRejected

Spec == Init /\ [][Next]_vars

---------------------------------------------------------------------------
(* The Board operations applied to one Board value                         *)

BoardCells == {PosXY(3, j) : j \in 0 .. NumCells - 1}

OpNew == bd' = Board_new
OpEmpty == bd' = Board_empty
OpSetDisk == \E pos \in BoardCells, disk \in {"Mine", "Others"} :
                 bd' = set_disk(bd, pos, disk)
OpUnsetDisk == \E pos \in BoardCells : bd' = unset_disk(bd, pos)
OpReverse == bd' = reverse(bd)
OpFlipped == \E pos \in BoardCells :
                 /\ flipped(bd, pos) # None
                 /\ bd' = flipped(bd, pos)[1]
OpAllFlipped == \E k \in DOMAIN all_flipped(bd) : bd' = all_flipped(bd)[k][2]
OpFromPatternIndex == \E index \in 0 .. MaxIndex :
                          bd' = from_pattern_index(Diag4, index)

BoardNext ==
    /\ nops < MaxOps
    /\ nops' = nops + 1
    /\ \/ OpNew
       \/ OpEmpty
       \/ OpSetDisk
       \/ OpUnsetDisk
       \/ OpReverse
       \/ OpFlipped
       \/ OpAllFlipped
       \/ OpFromPatternIndex
    /\ UNCHANGED <<gameVars, searchVars, pureVars, weightVars>>

BoardInit ==
    /\ state = "Turn"
    /\ board = Board_new
    /\ turn_color = "Black"
    /\ history = <<>>
    /\ ret = NoRet
    /\ line = 0
    /\ bd \in {Board_new, Board_empty}
    /\ nops = 0
    /\ nm = NoMove
    /\ inp = NoInput
    /\ out = NoOutput
    /\ wu = NoUpdater

SpecBoard == BoardInit /\ [][BoardNext]_vars

---------------------------------------------------------------------------
(* The search run on the boards of a game                                  *)

Coms ==
    {[mid_depth |-> m, wld_depth |-> w, exact_depth |-> e] :
        m \in 1 .. MaxMid, w \in {0, MaxLeft}, e \in {0, MaxLeft}}

\* the last put left a side without a move: a pass, or the end of the game
PassedOrOver == ret.result = <<"Ok">> /\ ~can_play(ret.flipped[1])

\* the boards a self-play loop hands to the search: the board of the side
\* to move and, around a pass, the board of the side that cannot move
SearchBoards ==
    {[b |-> board, color |-> turn_color]}
        \cup (IF PassedOrOver
              THEN {[b |-> reverse(board), color |-> Color_reverse(turn_color)]}
              ELSE {})

SearchHere ==
    \/ count_disk(board, None) <= MaxLeft
    \/ Len(history) <= MaxOpening
    \/ (line < 0 /\ Len(history) <= Len(Scripts[-line]))

CompareDepths(b) ==
    (0 .. MaxDepth)
        \cup (IF count_disk(b, None) <= MaxLeft THEN {count_disk(b, None)} ELSE {})

\* a put of the game under search
SearchPut ==
    /\ \E pos \in FreeMoves : put_disk(pos)
    /\ nm' = NoMove
    /\ UNCHANGED <<line, boardVars, pureVars, weightVars>>

\* Com::next_move on a board of the game not searched yet
Think ==
    /\ SearchHere
    /\ nm = NoMove
    /\ \E s \in SearchBoards, com \in Coms, ev \in Evaluators :
          nm' = [kind |-> "next_move", board |-> s.b, com |-> com, ev |-> ev,
                 move |-> next_move(com, ev, s.b, s.color)]
    /\ UNCHANGED <<gameVars, boardVars, pureVars, weightVars>>

\* the comparison of tests::comp_com on a board of the game
Compare ==
    /\ SearchHere
    /\ nm = NoMove
    /\ \E s \in SearchBoards, ev \in Evaluators :
          \E depth \in CompareDepths(s.b) :
              nm' = [kind |-> "comp", board |-> s.b, depth |-> depth, ev |-> ev,
                     ab |-> alpha_beta(ev, s.b, depth, -I32_MAX, I32_MAX, FALSE),
                     nb |-> nega_max(ev, s.b, depth, FALSE)]
    /\ UNCHANGED <<gameVars, boardVars, pureVars, weightVars>>

SearchNext == SearchPut \/ Think \/ Compare

SpecSearch == Init /\ [][SearchNext]_vars

---------------------------------------------------------------------------
(* The naive per-cell line walk, in board coordinates                      *)

Dirs == {d \in {-1, 0, 1} \X {-1, 0, 1} : d # <<0, 0>>}

OnBoard(x, y) == x \in 0 .. SIZE - 1 /\ y \in 0 .. SIZE - 1

\* the cells captured from (x, y) in direction d: a run of k >= 1 opponent
\* disks next to the cell, followed on the board by a disk of the mover
LineFlips(b, x, y, d) ==
    LET ks == {k \in 1 .. SIZE - 2 :
                  /\ \A j \in 1 .. k :
                        /\ OnBoard(x + j * d[1], y + j * d[2])
                        /\ PosXY(x + j * d[1], y + j * d[2]) \in b.others_disks
                  /\ OnBoard(x + (k + 1) * d[1], y + (k + 1) * d[2])
                  /\ PosXY(x + (k + 1) * d[1], y + (k + 1) * d[2])
                        \in b.mine_disks}
    IN  UNION {{PosXY(x + j * d[1], y + j * d[2]) : j \in 1 .. k} : k \in ks}

NaiveFlips(b, pos) ==
    UNION {LineFlips(b, PosX(pos), PosY(pos), d) : d \in Dirs}

NaiveCandidates(b) ==
    {p \in AllPos :
        /\ p \notin b.mine_disks
        /\ p \notin b.others_disks
        /\ NaiveFlips(b, p) # {}}

\* C1: on every board reached from the standard start by legal moves and
\* passes, and for either side to move, the bit-parallel flip_candidates()
\* is exactly the set of empty cells from which a naive 8-direction line
\* walk finds a run of opponent disks closed by a disk of the mover.
C1_CandidatesAreNaive ==
    /\ flip_candidates(board) = NaiveCandidates(board)
    /\ flip_candidates(reverse(board)) = NaiveCandidates(reverse(board))

C1_Witness ==
    /\ flip_candidates(reverse(board)) # {}
    /\ \E p \in flip_candidates(board) :
          /\ PosX(p) \in {0, SIZE - 1}
          /\ count(NaiveFlips(board, p)) >= 3

---------------------------------------------------------------------------
(* Board invariants and the result of flipped()                            *)

\* C4: after any sequence of Board operations (new, empty, set_disk,
\* unset_disk, reverse, flipped, all_flipped, from_pattern_index) no cell is
\* in both mine_disks and others_disks.
C4_Disjoint == BitAnd(bd.mine_disks, bd.others_disks) = {}

\* a disk of the opponent was overwritten by set_disk(D4, Mine)
C4_Witness ==
    /\ nops > 0
    /\ bd.mine_disks = {D4, E4, D5}
    /\ bd.others_disks = {E5}

Occupied(b, pos) == pos \in b.mine_disks \/ pos \in b.others_disks

\* C5: flipped(pos) is None if and only if pos is occupied (by either side)
\* or a put at pos captures no opponent disk; otherwise it is a board.
C5_NoneIffOccupiedOrNoCapture ==
    \A pos \in AllPos :
        /\ flipped(board, pos) = None
              <=> (Occupied(board, pos) \/ NaiveFlips(board, pos) = {})
        /\ flipped(board, pos) # None
              => DOMAIN flipped(board, pos)[1] = {"mine_disks", "others_disks"}

\* a put at an empty cell that captures nothing was rejected in mid-game
C5_Witness ==
    /\ ret.result = <<"Err", <<"CannotPut", ret.pos>>>>
    /\ ~Occupied(board, ret.pos)
    /\ Len(history) > MaxFree

\* C6 as stated: for a legal move the returned board has the captured cells
\* and the played cell in its mine set and none of them in its others set.
C6_CapturedInMine ==
    \A pos \in flip_candidates(board) :
        LET new == flipped(board, pos)[1]
            cells == NaiveFlips(board, pos) \cup {pos}
        IN  /\ cells \subseteq new.mine_disks
            /\ cells \cap new.others_disks = {}

\* C6 amended: for a legal move the returned board is in the frame of the
\* next mover, so the captured cells and the played cell are in its others
\* set (the disks of the side that just moved) and none is in its mine set.
C6_CapturedInOthers ==
    \A pos \in flip_candidates(board) :
        LET new == flipped(board, pos)[1]
            cells == NaiveFlips(board, pos) \cup {pos}
        IN  /\ cells \subseteq new.others_disks
            /\ cells \cap new.mine_disks = {}

\* a put has captured disks in more than one direction
C6_Witness ==
    /\ ret.result = <<"Ok">>
    /\ LET old == history[Len(history)]
       IN  Cardinality({d \in Dirs :
               LineFlips(old, PosX(ret.pos), PosY(ret.pos), d) # {}}) >= 2

AfterD3 ==
    /\ Len(history) = 1
    /\ ret.pos = D3
    /\ ret.result = <<"Ok">>

\* C8 as stated: from the opening board, black plays D3: 2 disks flip, black
\* has 4 disks, white has 1, the legal replies are exactly {C3, C5, E3}.
C8_OpeningD3 ==
    AfterD3 =>
        /\ flip_count(history[1], D3) = 2
        /\ Game_count_disk(Some("Black")) = 4
        /\ Game_count_disk(Some("White")) = 1
        /\ flip_candidates(board) = {C3, C5, E3}

\* C8 amended: from the opening board, black plays D3: 1 disk (D4) flips,
\* black has 4 disks, white has 1, the legal replies (white's) are exactly
\* {C3, C5, E3}.
C8_OpeningD3Amended ==
    AfterD3 =>
        /\ history[1] = Board_new
        /\ flipped_set(history[1], D3) = Some({D4})
        /\ flip_count(history[1], D3) = 1
        /\ Game_count_disk(Some("Black")) = 4
        /\ Game_count_disk(Some("White")) = 1
        /\ Game_turn_color = Some("White")
        /\ flip_candidates(board) = {C3, C5, E3}

C8_Witness == AfterD3 /\ line = 0

\* C10: put_disk on a finished game returns the GameOver error whatever the
\* cell; on a running game a put at an occupied or non-capturing cell
\* returns CannotPut with that cell; an error leaves state, board,
\* turn_color and history unchanged.
C10_Step ==
    /\ state = "GameOver" => ret'.result = <<"Err", <<"GameOver">>>>
    /\ (state # "GameOver"
          /\ (Occupied(board, ret'.pos) \/ NaiveFlips(board, ret'.pos) = {}))
       => ret'.result = <<"Err", <<"CannotPut", ret'.pos>>>>
    /\ ret'.result # <<"Ok">>
       => UNCHANGED <<state, board, turn_color, history>>

C10_PutErrors == [][C10_Step]_vars

\* a put on a finished game was rejected
C10_Witness ==
    /\ state = "GameOver"
    /\ ret.result = <<"Err", <<"GameOver">>>>
    /\ Occupied(board, ret.pos)

---------------------------------------------------------------------------
(* The end of the game                                                     *)

Dead(b) == ~can_play(b) /\ ~can_play(reverse(b))

---------------------------------------------------------------------------
(* The search                                                              *)

\* C2 as stated: if the side to move has a legal move, next_move returns
\* Some(p) with p a legal move, for every Com with mid_depth >= 1 and every
\* evaluator; it returns None only when the side to move has no legal move.
C2_NextMoveLegal ==
    nm.kind = "next_move" =>
        LET cs == flip_candidates(nm.board)
        IN  /\ cs # {} => (nm.move.best_pos # None /\ nm.move.best_pos[1] \in cs)
            /\ nm.move.best_pos = None => cs = {}

\* next_move took the win/loss/draw branch on a board with legal moves and
\* returned no move
C2_Witness ==
    /\ nm.kind = "next_move"
    /\ nm.com.exact_depth < count_disk(nm.board, None)
    /\ count_disk(nm.board, None) <= nm.com.wld_depth
    /\ flip_candidates(nm.board) # {}
    /\ nm.move.best_pos = None
    /\ nm.move.score = 1

\* C3: on every board, for every depth and evaluator, alpha_beta with the
\* window (-i32::MAX, i32::MAX) returns the (score, move) pair of nega_max
\* and visits at most as many nodes.
C3_AlphaBetaIsNegaMax ==
    nm.kind = "comp" =>
        /\ nm.ab.score = nm.nb.score
        /\ nm.ab.pos = nm.nb.pos
        /\ nm.ab.nodes <= nm.nb.nodes

\* a comparison in which alpha_beta pruned nodes and both found a move
C3_Witness ==
    /\ nm.kind = "comp"
    /\ nm.depth >= 2
    /\ nm.ab.pos # None
    /\ nm.ab.nodes < nm.nb.nodes

---------------------------------------------------------------------------
(* The regimes of next_move                                                *)

\* what each regime returns on the searched board
ExactResult ==
    NextMove(alpha_beta(nm.ev, nm.board, count_disk(nm.board, None),
                        -I32_MAX, I32_MAX, FALSE))
WldResult ==
    NextMove(alpha_beta(nm.ev, nm.board, count_disk(nm.board, None),
                        -I32_MAX, 1, FALSE))
MidResult ==
    NextMove(alpha_beta(nm.ev, nm.board, nm.com.mid_depth,
                        -I32_MAX, I32_MAX, FALSE))

\* C11 as stated: for wld_depth <= exact_depth, next_move runs the exact
\* search when left <= exact_depth, the win/loss/draw search when
\* exact_depth < left <= wld_depth, and the search to depth mid_depth when
\* left > wld_depth.
C11_Regimes ==
    (nm.kind = "next_move" /\ nm.com.wld_depth <= nm.com.exact_depth) =>
        LET left == count_disk(nm.board, None)
        IN  /\ left <= nm.com.exact_depth => nm.move = ExactResult
            /\ (nm.com.exact_depth < left /\ left <= nm.com.wld_depth)
                  => nm.move = WldResult
            /\ left > nm.com.wld_depth => nm.move = MidResult

\* C11 amended: next_move tests the exact threshold first: it runs the exact
\* search (depth left, window (-MAX, MAX)) when left <= exact_depth, the
\* win/loss/draw search (depth left, window (-MAX, 1)) when exact_depth <
\* left <= wld_depth, and the search to depth mid_depth only when left is
\* greater than both wld_depth and exact_depth.
C11_RegimesExactFirst ==
    nm.kind = "next_move" =>
        LET left == count_disk(nm.board, None)
        IN  /\ left <= nm.com.exact_depth => nm.move = ExactResult
            /\ (nm.com.exact_depth < left /\ left <= nm.com.wld_depth)
                  => nm.move = WldResult
            /\ (left > nm.com.wld_depth /\ left > nm.com.exact_depth)
                  => nm.move = MidResult

\* a search with wld_depth < left <= exact_depth, deeper than mid_depth
C11_Witness ==
    /\ nm.kind = "next_move"
    /\ nm.com.wld_depth < count_disk(nm.board, None)
    /\ count_disk(nm.board, None) <= nm.com.exact_depth
    /\ nm.com.mid_depth < count_disk(nm.board, None)
    /\ nm.move.best_pos # None
    /\ nm.move # MidResult

---------------------------------------------------------------------------
(* Node counting                                                           *)

\* the board after the naive walk's move at pos, in the next mover's frame
NaiveChild(b, pos) ==
    Board(b.others_disks \ NaiveFlips(b, pos),
          b.mine_disks \cup NaiveFlips(b, pos) \cup {pos})

\* the leaves of the full-width game tree below b: the nodes at depth 0 and
\* the nodes reached by two passes in a row
RECURSIVE Leaves(_, _, _)
RECURSIVE SumLeaves(_, _, _)
SumLeaves(b, cs, depth) ==
    IF cs = {} THEN 0
    ELSE LET p == CHOOSE q \in cs : TRUE
         IN  Leaves(NaiveChild(b, p), depth - 1, FALSE)
                 + SumLeaves(b, cs \ {p}, depth)
Leaves(b, depth, in_pass) ==
    IF depth = 0 THEN 1
    ELSE IF NaiveCandidates(b) # {}
    THEN SumLeaves(b, NaiveCandidates(b), depth)
    ELSE IF in_pass THEN 1
    ELSE Leaves(reverse(b), depth, TRUE)

\* C12: the visited_nodes of a search is the number of evaluator calls made
\* during it: one per depth-0 leaf and one per double-pass leaf, none at a
\* node that expands moves or passes once; for the full-width nega_max it is
\* the number of leaves of the game tree.
C12_NodesAreEvaluations ==
    nm.kind = "comp" =>
        /\ nm.ab.nodes = nm.ab.evals
        /\ nm.nb.nodes = nm.nb.evals
        /\ nm.nb.nodes = Leaves(nm.board, nm.depth, FALSE)
        /\ nm.ab.nodes >= 1

\* a search from a board on which the side to move has to pass
C12_Witness ==
    /\ nm.kind = "comp"
    /\ nm.depth >= 2
    /\ flip_candidates(nm.board) = {}
    /\ flip_candidates(reverse(nm.board)) # {}
    /\ nm.ab.nodes >= 2
    /\ nm.ab.nodes = nm.ab.evals

---------------------------------------------------------------------------
(* pattern_index and from_pattern_index on boards of their own             *)

\* the board holding mine where f is 1 and others where f is 2
BoardOf(f) ==
    Board({c \in DOMAIN f : f[c] = 1}, {c \in DOMAIN f : f[c] = 2})

Cells(pattern) == {pattern[k] : k \in DOMAIN pattern}

\* the cells of Diag4 and the first NumExtra cells of Diag5
PatternCells == Cells(Diag4) \cup {Diag5[k] : k \in 1 .. NumExtra}

\* the patterns whose every index is converted to a board and back
IndexPatterns == {Diag4, Diag5, Edge}

PatternInit ==
    /\ state = "Turn"
    /\ board = Board_new
    /\ turn_color = "Black"
    /\ history = <<>>
    /\ ret = NoRet
    /\ line = 0
    /\ bd = Board_new
    /\ nops = 0
    /\ nm = NoMove
    /\ \/ inp \in {[op |-> "board", board |-> BoardOf(f)] :
                      f \in [PatternCells -> {0, 1, 2}]}
       \/ \E pattern \in IndexPatterns :
             \E index \in 0 .. (3 ^ Len(pattern)) - 1 :
                inp = [op |-> "index", pattern |-> pattern, index |-> index]
    /\ out = NoOutput
    /\ wu = NoUpdater

\* board.pattern_index(pattern), then Board::from_pattern_index of it
RoundTrip ==
    /\ inp.op = "board"
    /\ out = NoOutput
    /\ \E pattern \in {Diag4, Diag5} :
          out' = [op |-> "round_trip", pattern |-> pattern,
                  index |-> pattern_index(inp.board, pattern),
                  board |-> from_pattern_index(pattern,
                                pattern_index(inp.board, pattern))]
    /\ UNCHANGED <<gameVars, boardVars, searchVars, inp, weightVars>>

\* Board::from_pattern_index(pattern, index), then pattern_index of it (the
\* debug assertion of from_pattern_index, and the table generator's use)
IndexRoundTrip ==
    /\ inp.op = "index"
    /\ out = NoOutput
    /\ out' = [op |-> "index_round_trip",
               board |-> from_pattern_index(inp.pattern, inp.index),
               index |-> pattern_index(
                             from_pattern_index(inp.pattern, inp.index),
                             inp.pattern)]
    /\ UNCHANGED <<gameVars, boardVars, searchVars, inp, weightVars>>

PatternNext == RoundTrip \/ IndexRoundTrip

SpecPattern == PatternInit /\ [][PatternNext]_vars

\* C13: for every board and pattern p of pairwise distinct cells,
\* from_pattern_index(p, pattern_index(board, p)) is the board on the cells
\* of p and is empty elsewhere.
C13_RoundTrip ==
    out.op = "round_trip" =>
        /\ out.board.mine_disks = inp.board.mine_disks \cap Cells(out.pattern)
        /\ out.board.others_disks
              = inp.board.others_disks \cap Cells(out.pattern)

\* a board with a disk off the pattern, an empty cell between two disks of
\* the pattern and the last cell of the pattern empty
C13_Witness ==
    /\ out.op = "round_trip"
    /\ out.pattern = Diag4
    /\ inp.board.others_disks \ Cells(Diag4) # {}
    /\ get_disk(inp.board, Diag4[1]) = Some("Others")
    /\ get_disk(inp.board, Diag4[2]) = None
    /\ get_disk(inp.board, Diag4[3]) = Some("Mine")
    /\ get_disk(inp.board, Diag4[4]) = None
    /\ out.index = 11

\* C21: for every pattern p of n distinct cells and every index i with
\* 0 <= i < 3^n, pattern_index(from_pattern_index(p, i), p) = i, the k-th
\* base-3 digit of i (least significant first) being 0 for an empty cell, 1
\* for mine and 2 for others at the k-th cell of p; the index fits a u16.
C21_IndexRoundTrip ==
    out.op = "index_round_trip" =>
        /\ out.index = inp.index
        /\ out.index <= U16_MAX
        /\ \A k \in DOMAIN inp.pattern :
              get_disk(out.board, inp.pattern[k])
                = LET d == (inp.index \div (3 ^ (k - 1))) % 3
                  IN  IF d = 0 THEN None
                      ELSE IF d = 1 THEN Some("Mine") ELSE Some("Others")

\* the largest index of the 10-cell pattern: every cell of it is others
C21_Witness ==
    /\ out.op = "index_round_trip"
    /\ inp.pattern = Edge
    /\ inp.index = (3 ^ 10) - 1
    /\ count(out.board.others_disks) = 10

\* ------------------------------------------------------------------------
\* com/build.rs: the generator of the pattern tables of the weight evaluator
\* ------------------------------------------------------------------------

\* how many entries of the generator's PATTERNS list are generated
NumPatterns == 2


Diag6 ==
    <<PosXY(5, 0), PosXY(4, 1), PosXY(3, 2), PosXY(2, 3), PosXY(1, 4),
      PosXY(0, 5)>>

\* const PATTERNS of build.rs, its first NumPatterns entries
BUILD_PATTERNS == SubSeq(<<Diag4, Diag5, Diag6>>, 1, NumPatterns)

\* the i32 inside a Pos, by which Pos is ordered (derive(Ord))
Pos_index(pos) == (PosX(pos) + 1) * (SIZE + 2) + (PosY(pos) + 1)

\* Ord of Vec<Pos>: lexicographic, a proper prefix is smaller
Vec_lt(a, b) ==
    \/ \E k \in 1 .. Len(a) :
          /\ k <= Len(b)
          /\ \A h \in 1 .. k - 1 : a[h] = b[h]
          /\ Pos_index(a[k]) < Pos_index(b[k])
    \/ /\ Len(a) < Len(b)
       /\ \A h \in 1 .. Len(a) : a[h] = b[h]

\* Ord of PosSet: the order of the u128 words, decided by the highest bit
\* in which the two words differ
PosSet_lt(s, t) ==
    /\ s # t
    /\ LET d == (s \ t) \cup (t \ s)
           top == CHOOSE p \in d : \A q \in d : Pos_index(q) <= Pos_index(p)
       IN  top \in t

\* PatternMap is modelled as the set of its patterns (the Vec<Pos> values of
\* all entries); the key of a pattern is the set of its cells
PatternMap_insert(map, pattern) == map \cup {pattern}

\* f is the closure, as the function from Pos to Pos
insert_mapped(map, f) ==
    map \cup {[k \in DOMAIN pattern |-> f[pattern[k]]] : pattern \in map}

flip_horizontal == [p \in AllPos |-> PosXY((SIZE - 1) - PosX(p), PosY(p))]

flip_vertical == [p \in AllPos |-> PosXY(PosX(p), (SIZE - 1) - PosY(p))]

rotate == [p \in AllPos |-> PosXY((SIZE - 1) - PosY(p), PosX(p))]

\* the horizontal and vertical flips only
from_pattern_norotate(pattern) ==
    insert_mapped(insert_mapped(PatternMap_insert({}, pattern),
                                flip_horizontal), flip_vertical)

from_pattern(pattern) ==
    insert_mapped(
        insert_mapped(
            insert_mapped(
                insert_mapped(
                    insert_mapped(PatternMap_insert({}, pattern),
                                  flip_horizontal),
                    flip_vertical),
                rotate),
            rotate),
        rotate)

\* the patterns of a BTreeSet<Vec<Pos>> in ascending order
BTreeSet_iter(set) ==
    [k \in 1 .. Cardinality(set) |->
        CHOOSE v \in set : Cardinality({u \in set : Vec_lt(u, v)}) = k - 1]

\* pattern_map.0.values(): the sets of patterns in ascending key order
PatternMap_values(map) ==
    LET keys == {Cells(pattern) : pattern \in map}
    IN  [k \in 1 .. Cardinality(keys) |->
            {pattern \in map :
                Cells(pattern)
                  = CHOOSE s \in keys :
                        Cardinality({t \in keys : PosSet_lt(t, s)}) = k - 1}]

\* the entry written for the k-th pattern of the first set: the index read
\* through that pattern instead of through first_pattern
cpw_target_self(first_patterns, k, i) ==
    pattern_index(from_pattern_index(first_patterns[k], i), first_patterns[k])

\* the entry written for the k-th pattern of the first set
cpw_target(first_patterns, k, i) ==
    pattern_index(from_pattern_index(first_patterns[k], i), first_patterns[1])

RECURSIVE cpw_inner(_, _, _, _, _)
\* for pattern in first_patterns (after the first) { map[..] = store_index }
cpw_inner(map, first_patterns, k, i, store_index) ==
    IF k > Len(first_patterns) THEN map
    ELSE cpw_inner([map EXCEPT ![cpw_target(first_patterns, k, i)]
                                   = store_index],
                   first_patterns, k + 1, i, store_index)

\* one round of the loop over i: skip an assigned entry, else open a new
\* weight for i and for what the other patterns of the first set read
cpw_step(st, i, first_patterns) ==
    IF st.pattern_to_weight_map[i] # U16_MAX THEN st
    ELSE [weight_count |-> st.weight_count + 1,
          pattern_to_weight_map |->
              cpw_inner([st.pattern_to_weight_map EXCEPT
                            ![i] = st.weight_count],
                        first_patterns, 2, i, st.weight_count)]

RECURSIVE cpw_loop(_, _, _, _)
cpw_loop_rest(st, lo, hi, first_patterns) ==
    IF st.weight_count >= 0 THEN cpw_loop(st, lo, hi, first_patterns) ELSE st

\* for i in lo..=hi, in ascending order: the range is split in halves to
\* keep the nesting shallow, and the first half is computed (its count is
\* never negative) before the second half starts
cpw_loop(st, lo, hi, first_patterns) ==
    IF lo > hi THEN st
    ELSE IF lo = hi THEN cpw_step(st, lo, first_patterns)
    ELSE cpw_loop_rest(cpw_loop(st, lo, (lo + hi) \div 2, first_patterns),
                       (lo + hi) \div 2 + 1, hi, first_patterns)

\* vec![value; n], indexed from 0 (held as an explicit table)
vec(value, n) == [i \in 0 .. n - 1 |-> value] @@ <<>>

create_pattern_to_weight_map(pattern_index_count, pattern_map) ==
    cpw_loop([weight_count |-> 0,
              pattern_to_weight_map |->
                  vec(U16_MAX, pattern_index_count)],
             0, pattern_index_count - 1,
             BTreeSet_iter(PatternMap_values(pattern_map)[1]))

RECURSIVE pow(_, _)
\* 3u16.pow(n)
pow(b, n) == IF n = 0 THEN 1 ELSE b * pow(b, n - 1)

\* the constants emit_pattern writes for one pattern, weight_index being the
\* number of weights of the patterns emitted before it
emit_pattern(weight_index, pattern) ==
    LET pattern_index_count == pow(3, Len(pattern))
        pattern_map == from_pattern(pattern)
        values == PatternMap_values(pattern_map)
        created == create_pattern_to_weight_map(pattern_index_count,
                                                pattern_map)
    IN  [PATTERNS |-> [k \in DOMAIN values |-> BTreeSet_iter(values[k])[1]],
         WEIGHT_INDEX_OFFSET |-> weight_index,
         WEIGHT_COUNT |-> created.weight_count,
         PATTERN_TO_WEIGHT_MAP |-> created.pattern_to_weight_map]

RECURSIVE main_loop(_, _)
\* main: for (name, pattern) in PATTERNS { emit_pattern(..) }
main_loop(done, weight_index) ==
    IF Len(done) = Len(BUILD_PATTERNS) THEN done
    ELSE LET e == emit_pattern(weight_index, BUILD_PATTERNS[Len(done) + 1])
         IN  main_loop(Append(done, e), weight_index + e.WEIGHT_COUNT)

\* the generated module pattern: one entry per pattern struct
Generated == main_loop(<<>>, 0)

\* pattern::WEIGHT_COUNT
WEIGHT_COUNT ==
    Generated[Len(Generated)].WEIGHT_INDEX_OFFSET
      + Generated[Len(Generated)].WEIGHT_COUNT

\* ------------------------------------------------------------------------
\* com/src/evaluator/weight.rs: the weight evaluator over the generated tables
\* ------------------------------------------------------------------------

\* struct Weight: pattern[0 .. WEIGHT_COUNT - 1] and parity[0 .. 1]
Weight(pattern, parity) == [pattern |-> pattern, parity |-> parity]

Weight_default == Weight(vec(0, WEIGHT_COUNT), vec(0, 2))

board_parity_index(b) == count_disk(b, None) % 2

\* the weight slot Pattern::evaluate and Pattern::update use for one
\* pattern of PATTERNS, as an index of Weight.pattern
weight_slot(P, b, k) ==
    P.WEIGHT_INDEX_OFFSET
      + P.PATTERN_TO_WEIGHT_MAP[pattern_index(b, P.PATTERNS[k])]

RECURSIVE pe_loop(_, _, _, _, _)
\* for pattern in Self::PATTERNS { value += weight[weight_index] }
pe_loop(P, b, weight, k, value) ==
    IF k > Len(P.PATTERNS) THEN value
    ELSE pe_loop(P, b, weight, k + 1,
                 value + weight.pattern[weight_slot(P, b, k)])

Pattern_evaluate(P, b, weight) == pe_loop(P, b, weight, 1, 0)

RECURSIVE cv_loop(_, _, _, _)
\* for evaluate in pattern::EVALUATE_FNS { res += evaluate(board, weight) }
cv_loop(weight, b, n, res) ==
    IF n > Len(Generated) THEN res
    ELSE cv_loop(weight, b, n + 1,
                 res + Pattern_evaluate(Generated[n], b, weight))

\* (mutant) without the parity weight
compute_value_noparity(weight, b) == cv_loop(weight, b, 1, 0)

compute_value(weight, b) ==
    cv_loop(weight, b, 1, 0) + weight.parity[board_parity_index(b)]

\* (mutant) the weights are used at a terminal position too
WeightEvaluator_evaluate_always(weight, b, over) ==
    compute_value(weight, b)

WeightEvaluator_evaluate(weight, b, over) ==
    IF over THEN CountEvaluator_evaluate(b, over)
    ELSE compute_value(weight, b)

\* ------------------------------------------------------------------------
\* com/src/evaluator/weight.rs: WeightUpdater
\* ------------------------------------------------------------------------

\* UPDATE_RATIO is 0.005: for every i32 x, (x as f64 * 0.005) as i32 is
\* x / UPDATE_RATIO_INV rounded toward zero
UPDATE_RATIO_INV == 200

MAX_PATTERN_VALUE == DISK_VALUE * 20

FREQ_THRESHOLD == 10

U8_MAX == 255

\* a / b of i32 for b > 0: the quotient rounded toward zero
div_trunc(a, b) == IF a >= 0 THEN a \div b ELSE (a + (b - 1)) \div b

\* a + b of i32 overflows
add_overflows(a, b) ==
    \/ b > 0 /\ a > I32_MAX - b
    \/ b < 0 /\ a < I32_MIN - b

\* a + b of i32 in a build without overflow checks (two's complement)
wrapping_add(a, b) ==
    IF b > 0 /\ a > I32_MAX - b
    THEN ((a - I32_MAX) - 1) + ((b - I32_MAX) - 1)
    ELSE IF b < 0 /\ a < I32_MIN - b
    THEN ((a + I32_MAX) + 1) + ((b + I32_MAX) + 1)
    ELSE a + b

\* a - b of i32 overflows
sub_overflows(a, b) ==
    \/ b > 0 /\ a < I32_MIN + b
    \/ b < 0 /\ a > I32_MAX + b

\* a - b of i32 in a build without overflow checks
wrapping_sub(a, b) ==
    IF b > 0 /\ a < I32_MIN + b
    THEN ((a + I32_MAX) + 1) + ((I32_MAX - b) + 1)
    ELSE IF b < 0 /\ a > I32_MAX + b
    THEN ((a - I32_MAX) - 1) + (I32_MIN - b)
    ELSE a - b

clamp(v, lo, hi) == IF v < lo THEN lo ELSE IF v > hi THEN hi ELSE v

\* (mutant) the updated value is stored as it is
update_value_noclamp(value, cnt, diff_sum) ==
    value + div_trunc(div_trunc(diff_sum, cnt), UPDATE_RATIO_INV)

\* update_value: the new *value
update_value(value, cnt, diff_sum) ==
    clamp(value + div_trunc(div_trunc(diff_sum, cnt), UPDATE_RATIO_INV),
          -MAX_PATTERN_VALUE, MAX_PATTERN_VALUE)

\* WeightUpdater::new; overflow records that an arithmetic operation of the
\* last call overflowed, panicked that the call panicked on it, calls
\* counts the calls and last is the last call with its arguments
WeightUpdater_new(weight) ==
    [op |-> "updater",
     weight |-> weight,
     pattern_count |-> vec(0, WEIGHT_COUNT),
     pattern_sum |-> vec(0, WEIGHT_COUNT),
     parity_count |-> vec(0, 2),
     parity_sum |-> vec(0, 2),
     overflow |-> FALSE,
     panicked |-> FALSE,
     calls |-> 0,
     last |-> [op |-> "new"]]

\* count[weight_index] += 1; sum[weight_index] += diff
pu_step(u, slot, diff) ==
    [u EXCEPT
        !.pattern_count[slot] = (@ + 1) % (U8_MAX + 1),
        !.pattern_sum[slot] = wrapping_add(@, diff),
        !.overflow = \/ @
                     \/ u.pattern_count[slot] = U8_MAX
                     \/ add_overflows(u.pattern_sum[slot], diff)]

RECURSIVE pu_loop(_, _, _, _, _)
\* Pattern::update: for pattern in Self::PATTERNS
pu_loop(P, b, u, diff, k) ==
    IF k > Len(P.PATTERNS) THEN u
    ELSE pu_loop(P, b, pu_step(u, weight_slot(P, b, k), diff), diff, k + 1)

RECURSIVE uf_loop(_, _, _, _)
\* for update in pattern::UPDATE_FNS { update(board, self, diff) }
uf_loop(b, u, diff, n) ==
    IF n > Len(Generated) THEN u
    ELSE uf_loop(b, pu_loop(Generated[n], b, u, diff, 1), diff, n + 1)

\* the parity counters of WeightUpdater::update
parity_step(u, parity_index, diff) ==
    [u EXCEPT
        !.parity_count[parity_index] = (@ + 1) % (U8_MAX + 1),
        !.parity_sum[parity_index] = wrapping_add(@, diff),
        !.overflow = \/ @
                     \/ u.parity_count[parity_index] = U8_MAX
                     \/ add_overflows(u.parity_sum[parity_index], diff)]

\* WeightUpdater::update in a build that wraps on overflow
WeightUpdater_update(u, b, value) ==
    parity_step(
        uf_loop(b,
                [u EXCEPT !.overflow =
                              sub_overflows(value,
                                            compute_value(u.weight, b))],
                wrapping_sub(value, compute_value(u.weight, b)), 1),
        board_parity_index(b),
        wrapping_sub(value, compute_value(u.weight, b)))

\* (mutant) a slot is flushed from FREQ_THRESHOLD counts on
inner_ge(cnt, sum, weight) ==
    [count |-> [k \in DOMAIN cnt |->
                   IF cnt[k] >= FREQ_THRESHOLD THEN 0 ELSE cnt[k]] @@ <<>>,
     sum |-> [k \in DOMAIN cnt |->
                 IF cnt[k] >= FREQ_THRESHOLD THEN 0 ELSE sum[k]] @@ <<>>,
     weight |-> [k \in DOMAIN cnt |->
                    IF cnt[k] >= FREQ_THRESHOLD
                    THEN update_value(weight[k], cnt[k], sum[k])
                    ELSE weight[k]] @@ <<>>]

\* flush::inner on one of the two triples of arrays
inner(cnt, sum, weight) ==
    [count |-> [k \in DOMAIN cnt |->
                   IF cnt[k] > FREQ_THRESHOLD THEN 0 ELSE cnt[k]] @@ <<>>,
     sum |-> [k \in DOMAIN cnt |->
                 IF cnt[k] > FREQ_THRESHOLD THEN 0 ELSE sum[k]] @@ <<>>,
     weight |-> [k \in DOMAIN cnt |->
                    IF cnt[k] > FREQ_THRESHOLD
                    THEN update_value(weight[k], cnt[k], sum[k])
                    ELSE weight[k]] @@ <<>>]

WeightUpdater_flush(u) ==
    [u EXCEPT
        !.pattern_count =
            inner(u.pattern_count, u.pattern_sum, u.weight.pattern).count,
        !.pattern_sum =
            inner(u.pattern_count, u.pattern_sum, u.weight.pattern).sum,
        !.weight.pattern =
            inner(u.pattern_count, u.pattern_sum, u.weight.pattern).weight,
        !.parity_count =
            inner(u.parity_count, u.parity_sum, u.weight.parity).count,
        !.parity_sum =
            inner(u.parity_count, u.parity_sum, u.weight.parity).sum,
        !.weight.parity =
            inner(u.parity_count, u.parity_sum, u.weight.parity).weight,
        !.overflow = FALSE]

\* com/src/evaluator.rs, WeightUpdater::update::update_pattern: the weight
\* slice after the call, in a build that wraps on overflow
update_pattern(weight, idx, mirror_idx, diff) ==
    LET w1 == [weight EXCEPT
                  ![idx] = clamp(wrapping_add(weight[idx], diff),
                                 -MAX_PATTERN_VALUE, MAX_PATTERN_VALUE)]
    IN  IF mirror_idx = None THEN w1
        ELSE [w1 EXCEPT ![mirror_idx[1]] = w1[idx]]

\* ------------------------------------------------------------------------
\* The generated tables and the weight evaluator, applied on their own
\* ------------------------------------------------------------------------

\* the 8 symmetries of the square: g = t + 2 * h + 4 * v transposes the
\* cell if t = 1, then mirrors its column if h = 1 and its row if v = 1
Syms == 0 .. 7

SymPos(g, p) ==
    LET x0 == IF g % 2 = 1 THEN PosY(p) ELSE PosX(p)
        y0 == IF g % 2 = 1 THEN PosX(p) ELSE PosY(p)
        x1 == IF (g \div 2) % 2 = 1 THEN (SIZE - 1) - x0 ELSE x0
        y1 == IF g \div 4 = 1 THEN (SIZE - 1) - y0 ELSE y0
    IN  x1 + SIZE * y1

SymSet(g, s) == {SymPos(g, p) : p \in s}

SymBoard(g, b) == Board(SymSet(g, b.mine_disks), SymSet(g, b.others_disks))

\* the weight stores evaluated: NumStores files of weights, all within
\* -MAX_PATTERN_VALUE .. MAX_PATTERN_VALUE
NumStores == 2

WeightStore(s) ==
    Weight([k \in 0 .. WEIGHT_COUNT - 1 |->
               (((k + 1) * 7919 * s) % 40001) - 20000] @@ <<>>,
           [k \in 0 .. 1 |-> (2 * k - 1) * 3001 * s] @@ <<>>)

\* the raw indices looked up first are below MaxRaw
MaxRaw == 81

\* the calls made on one updater
MaxCalls == 3

\* the updates made before the calls that are followed one by one; after
\* 10 a parity counter stands at FREQ_THRESHOLD, after 63 a pattern
\* counter stands at 252
WarmUps == {0, 10, 63}

\* a board without a disk on the patterns and one with disks on them
UpdateBoards == {Board_new, Board({Diag4[1], Diag5[1]}, {Diag4[2]})}

\* the outcome values of update: the two ends of i32 and a won game
UpdateValues == {I32_MAX, I32_MIN, 64 * DISK_VALUE}

RECURSIVE warm_up(_, _, _)
warm_up_rest(u, b, n) == IF u.calls = 0 THEN warm_up(u, b, n) ELSE u

\* n updates of the board b with the value of a won game: the first half
\* of them is computed before the second half starts
warm_up(u, b, n) ==
    IF n = 0 THEN u
    ELSE IF n = 1 THEN WeightUpdater_update(u, b, 64 * DISK_VALUE)
    ELSE warm_up_rest(warm_up(u, b, n \div 2), b, n - n \div 2)

Updaters ==
    {warm_up(WeightUpdater_new(WeightStore(s)), b, n) :
        s \in 1 .. NumStores, b \in UpdateBoards, n \in WarmUps}

\* the inputs: a raw index of a generated pattern, or a board
WeightInputs ==
    {[op |-> "raw", n |-> n, i |-> i] :
        n \in 1 .. NumPatterns, i \in 0 .. MaxRaw - 1}
    \cup {[op |-> "board", board |-> BoardOf(f)] :
             f \in [PatternCells -> {0, 1, 2}]}

WeightInit ==
    /\ state = "Turn"
    /\ board = Board_new
    /\ turn_color = "Black"
    /\ history = <<>>
    /\ ret = NoRet
    /\ line = 0
    /\ bd = Board_new
    /\ nops = 0
    /\ nm = NoMove
    /\ out = NoOutput
    /\ \/ inp \in WeightInputs /\ wu = NoUpdater
       \/ inp = NoInput /\ wu \in Updaters

\* PATTERN_TO_WEIGHT_MAP[i] and PATTERN_TO_WEIGHT_MAP[j] of the n-th pattern
Lookup ==
    /\ inp.op = "raw"
    /\ out = NoOutput
    /\ inp.i < pow(3, Len(BUILD_PATTERNS[inp.n]))
    /\ \E j \in 0 .. pow(3, Len(BUILD_PATTERNS[inp.n])) - 1 :
          out' = [op |-> "lookup", n |-> inp.n, i |-> inp.i, j |-> j,
                  wi |-> Generated[inp.n].PATTERN_TO_WEIGHT_MAP[inp.i],
                  wj |-> Generated[inp.n].PATTERN_TO_WEIGHT_MAP[j]]
    /\ UNCHANGED <<gameVars, boardVars, searchVars, inp, weightVars>>

\* WeightEvaluator::evaluate on the board and on its image under a
\* symmetry, and CountEvaluator::evaluate on the board
Evaluate ==
    /\ inp.op = "board"
    /\ out = NoOutput
    /\ \E g \in Syms, s \in 1 .. NumStores, over \in BOOLEAN :
          out' = [op |-> "evaluate", g |-> g, store |-> s, over |-> over,
                  board_g |-> SymBoard(g, inp.board),
                  value |-> WeightEvaluator_evaluate(WeightStore(s),
                                inp.board, over),
                  value_g |-> WeightEvaluator_evaluate(WeightStore(s),
                                  SymBoard(g, inp.board), over),
                  count |-> CountEvaluator_evaluate(inp.board, over)]
    /\ UNCHANGED <<gameVars, boardVars, searchVars, inp, weightVars>>

\* WeightUpdater::update(board, value): a build with overflow checks panics
\* where the other build wraps
Update ==
    /\ wu.op = "updater"
    /\ ~wu.panicked
    /\ wu.calls < MaxCalls
    /\ \E b \in UpdateBoards, value \in UpdateValues :
          \/ wu' = [WeightUpdater_update(wu, b, value) EXCEPT
                       !.calls = wu.calls + 1,
                       !.last = [op |-> "update", board |-> b,
                                 value |-> value]]
          \/ /\ WeightUpdater_update(wu, b, value).overflow
             /\ wu' = [wu EXCEPT !.panicked = TRUE, !.calls = @ + 1,
                                 !.last = [op |-> "update", board |-> b,
                                           value |-> value]]
    /\ UNCHANGED <<gameVars, boardVars, searchVars, pureVars>>

\* WeightUpdater::flush()
Flush ==
    /\ wu.op = "updater"
    /\ ~wu.panicked
    /\ wu.calls < MaxCalls
    /\ wu' = [WeightUpdater_flush(wu) EXCEPT !.calls = wu.calls + 1,
                                             !.last = [op |-> "flush"]]
    /\ UNCHANGED <<gameVars, boardVars, searchVars, pureVars>>

\* one call of update_pattern by the updater of com/src/evaluator.rs, with
\* any of a few indices and differences
UpdatePattern ==
    /\ wu.op = "updater"
    /\ ~wu.panicked
    /\ wu.calls < MaxCalls
    /\ \E idx \in {0, 1}, mirror_idx \in {None, Some(2)},
          diff \in UpdateValues \cup {-1} :
          \/ wu' = [wu EXCEPT
                       !.weight.pattern =
                           update_pattern(@, idx, mirror_idx, diff),
                       !.overflow =
                           add_overflows(wu.weight.pattern[idx], diff),
                       !.calls = @ + 1,
                       !.last = [op |-> "update_pattern"]]
          \/ /\ add_overflows(wu.weight.pattern[idx], diff)
             /\ wu' = [wu EXCEPT !.panicked = TRUE, !.calls = @ + 1,
                                 !.last = [op |-> "update_pattern"]]
    /\ UNCHANGED <<gameVars, boardVars, searchVars, pureVars>>

WeightNext == Lookup \/ Evaluate \/ Update \/ Flush \/ UpdatePattern

SpecWeight == WeightInit /\ [][WeightNext]_vars

\* the cell arrangement a raw index stands for: digit k (base 3) of the
\* index is the k-th cell of the pattern, 0 empty, 1 mine, 2 others
Digit(index, k) == (index \div pow(3, k - 1)) % 3

Arrangement(pattern, index) ==
    Board({pattern[k] : k \in {h \in DOMAIN pattern : Digit(index, h) = 1}},
          {pattern[k] : k \in {h \in DOMAIN pattern : Digit(index, h) = 2}})

\* C15: in the generated table of a pattern two raw indices have the same
\* weight index exactly when one cell arrangement is the image of the other
\* under a symmetry of the board that maps the cells of the pattern onto
\* themselves; no entry is left at the sentinel and every entry is below the
\* number of weights of the pattern.
C15_TableClasses ==
    out.op = "lookup" =>
        LET P == Generated[out.n]
        IN  /\ out.wi # U16_MAX /\ out.wi < P.WEIGHT_COUNT
            /\ out.wj # U16_MAX /\ out.wj < P.WEIGHT_COUNT
            /\ \A k \in DOMAIN P.PATTERNS :
                  (out.wi = out.wj)
                    <=> \E g \in Syms :
                           /\ SymSet(g, Cells(P.PATTERNS[k]))
                                = Cells(P.PATTERNS[k])
                           /\ SymBoard(g, Arrangement(P.PATTERNS[k], out.i))
                                = Arrangement(P.PATTERNS[k], out.j)

\* two different raw indices of Diag5 with one weight, the second beyond
\* the first MaxRaw indices
C15_Witness ==
    /\ out.op = "lookup"
    /\ out.n = 2
    /\ out.i # out.j
    /\ out.j >= MaxRaw
    /\ out.wi = out.wj

\* the weight slots read for a board, one per generated pattern n and
\* ordering k
Reads(b) ==
    [x \in {<<n, k>> : n \in DOMAIN Generated, k \in 1 .. 4} |->
        IF x[2] \in DOMAIN Generated[x[1]].PATTERNS
        THEN weight_slot(Generated[x[1]], b, x[2]) ELSE -1]

\* f and h take every value equally often
SameBag(f, h) ==
    /\ DOMAIN f = DOMAIN h
    /\ \A x \in DOMAIN f :
          Cardinality({y \in DOMAIN f : f[y] = f[x]})
            = Cardinality({y \in DOMAIN h : h[y] = f[x]})

\* C14: the weighted evaluator gives a board and its image under any of
\* the 8 symmetries of the square the same non-terminal score, for every
\* weight store: both boards read the same weight slots equally often and
\* the same parity weight.
C14_Symmetric ==
    (out.op = "evaluate" /\ ~out.over) =>
        /\ out.value = out.value_g
        /\ SameBag(Reads(inp.board), Reads(out.board_g))
        /\ board_parity_index(inp.board) = board_parity_index(out.board_g)

\* a board that differs from its image and is read at other raw indices
\* there, with a score that is not the score of the empty board
C14_Witness ==
    /\ out.op = "evaluate"
    /\ ~out.over
    /\ out.board_g # inp.board
    /\ pattern_index(inp.board, Generated[1].PATTERNS[1])
         # pattern_index(out.board_g, Generated[1].PATTERNS[1])
    /\ pattern_index(inp.board, Generated[1].PATTERNS[1]) # 0
    /\ pattern_index(out.board_g, Generated[1].PATTERNS[1]) # 0
    /\ out.value # compute_value(WeightStore(out.store), Board_empty)
    /\ out.value = out.value_g

\* C17: with the terminal flag set the weighted evaluator returns
\* DISK_VALUE * (mine - others), the count evaluator's result, whatever the
\* weight store holds.
C17_Terminal ==
    (out.op = "evaluate" /\ out.over) =>
        /\ out.value
             = DISK_VALUE * (Cardinality(inp.board.mine_disks)
                               - Cardinality(inp.board.others_disks))
        /\ out.value = out.count

\* a terminal evaluation of a board whose weighted score is another number
C17_Witness ==
    /\ out.op = "evaluate"
    /\ out.over
    /\ out.value # 0
    /\ compute_value(WeightStore(out.store), inp.board) # out.value

\* C16: from a weight store with every value within -MAX_PATTERN_VALUE ..
\* MAX_PATTERN_VALUE, every pattern weight and parity weight stays within
\* that range under any sequence of update and flush calls, whatever the
\* outcome values are.
C16_InRange ==
    wu.op = "updater" =>
        /\ \A k \in DOMAIN wu.weight.pattern :
              /\ -MAX_PATTERN_VALUE <= wu.weight.pattern[k]
              /\ wu.weight.pattern[k] <= MAX_PATTERN_VALUE
        /\ \A k \in DOMAIN wu.weight.parity :
              /\ -MAX_PATTERN_VALUE <= wu.weight.parity[k]
              /\ wu.weight.parity[k] <= MAX_PATTERN_VALUE

\* a flush has moved a parity weight and a pattern weight to an end of the
\* range, away from what the weight stores hold, and emptied the counters
C16_Witness ==
    /\ wu.op = "updater"
    /\ wu.calls > 0
    /\ \E p \in DOMAIN wu.weight.parity :
          /\ wu.weight.parity[p] \in {-MAX_PATTERN_VALUE, MAX_PATTERN_VALUE}
          /\ wu.parity_count[p] = 0
    /\ \E k \in DOMAIN wu.weight.pattern :
          /\ k > 2
          /\ \A s \in 1 .. NumStores :
                wu.weight.pattern[k] # WeightStore(s).pattern[k]
          /\ wu.weight.pattern[k] \in {-MAX_PATTERN_VALUE, MAX_PATTERN_VALUE}
          /\ wu.pattern_count[k] = 0

\* ------------------------------------------------------------------------
\* core/src/board/pos.rs: Display and FromStr of Pos
\* ------------------------------------------------------------------------
\* A string is the sequence of the code points of its chars.

\* the longest string parsed, but for the few longer ones of LongStrings
MaxLen == 3

\* the chars of the strings: + - 0 1 8 9 A H I a h, and the letters
\* U+00E9 (e acute), U+0100 (A macron) and U+0141 (L stroke)
Chars == {43, 45, 48, 49, 56, 57, 65, 72, 73, 97, 104, 233, 256, 321}

\* A-2147483648, A2147483648, A2147483647 and A0008
LongStrings ==
    {<<65, 45, 50, 49, 52, 55, 52, 56, 51, 54, 52, 56>>,
     <<65, 50, 49, 52, 55, 52, 56, 51, 54, 52, 56>>,
     <<65, 50, 49, 52, 55, 52, 56, 51, 54, 52, 55>>,
     <<65, 48, 48, 48, 56>>}

Strings ==
    UNION {[1 .. n -> Chars] : n \in 0 .. MaxLen} \cup LongStrings

\* char::is_alphabetic on the chars of Chars and of LongStrings: the ASCII
\* letters and the three other letters
is_alphabetic(c) == c \in (65 .. 90) \cup (97 .. 122) \cup {233, 256, 321}

\* str::to_ascii_uppercase: only a..z change
to_ascii_uppercase(s) ==
    [k \in DOMAIN s |-> IF s[k] \in 97 .. 122 THEN s[k] - 32 ELSE s[k]]

Ok(v) == [ok |-> TRUE, value |-> v]
Err(e) == [ok |-> FALSE, error |-> e]

RECURSIVE parse_digits(_, _, _, _)
\* the digit loop of str::parse::<i32>, checked_mul and checked_add (or
\* checked_sub after a minus sign) on every digit
parse_digits(s, k, neg, acc) ==
    IF k > Len(s) THEN Ok(acc)
    ELSE IF s[k] \notin 48 .. 57 THEN Err("InvalidDigit")
    ELSE IF ~neg /\ acc > (I32_MAX - (s[k] - 48)) \div 10
    THEN Err("PosOverflow")
    ELSE IF neg /\ acc < div_trunc(I32_MIN + (s[k] - 48), 10)
    THEN Err("NegOverflow")
    ELSE parse_digits(s, k + 1, neg,
                      IF neg THEN acc * 10 - (s[k] - 48)
                      ELSE acc * 10 + (s[k] - 48))

\* str::parse::<i32>
parse_i32(s) ==
    IF s = <<>> THEN Err("Empty")
    ELSE IF s[1] \in {43, 45}
    THEN IF Len(s) = 1 THEN Err("InvalidDigit")
         ELSE parse_digits(s, 2, s[1] = 45, 0)
    ELSE parse_digits(s, 1, FALSE, 0)

\* (alpha as u8 - b'A') as i32: the cast keeps the low 8 bits, and the
\* subtraction overflows below b'A'; Err("panic") is the outcome of the
\* build with overflow checks
column_of(alpha) ==
    IF alpha % 256 >= 65 THEN {Ok((alpha % 256) - 65)}
    ELSE {Err("panic"), Ok(((alpha % 256) - 65) + 256)}

\* num - 1
row_of(num) ==
    IF num = I32_MIN THEN {Err("panic"), Ok(I32_MAX)} ELSE {Ok(num - 1)}

\* the end of Pos::from_str, x and y computed
from_str_xy(alpha, num, x, y) ==
    IF ~x.ok \/ ~y.ok THEN Err(<<"panic">>)
    ELSE IF from_xy(x.value, y.value) = None
    THEN Err(<<"InvalidPos", alpha, num>>)
    ELSE Ok(from_xy(x.value, y.value)[1])

\* Pos::from_str: the set of the outcomes of the builds
from_str(s0) ==
    LET s == to_ascii_uppercase(s0)
    IN  IF s = <<>> THEN {Err(<<"Empty">>)}
        ELSE IF ~is_alphabetic(s[1])
        THEN {Err(<<"InvalidAlphabet", s[1]>>)}
        ELSE IF ~parse_i32(Tail(s)).ok
        THEN {Err(<<"ParseInt", Tail(s), parse_i32(Tail(s)).error>>)}
        ELSE {from_str_xy(s[1], parse_i32(Tail(s)).value, x, y) :
                 x \in column_of(s[1]),
                 y \in row_of(parse_i32(Tail(s)).value)}

\* Pos as Display: the column letter and the row number
to_string(pos) == <<65 + PosX(pos), 48 + (PosY(pos) + 1)>>

PosInit ==
    /\ state = "Turn"
    /\ board = Board_new
    /\ turn_color = "Black"
    /\ history = <<>>
    /\ ret = NoRet
    /\ line = 0
    /\ bd = Board_new
    /\ nops = 0
    /\ nm = NoMove
    /\ inp \in {[op |-> "str", s |-> s] : s \in Strings}
                 \cup {[op |-> "pos", pos |-> pos] : pos \in AllPos}
    /\ out = NoOutput
    /\ wu = NoUpdater

\* s.parse::<Pos>()
FromStr ==
    /\ inp.op = "str"
    /\ out = NoOutput
    /\ \E r \in from_str(inp.s) :
          out' = [op |-> "from_str", result |-> r]
    /\ UNCHANGED <<gameVars, boardVars, searchVars, inp, weightVars>>

\* pos.to_string().parse::<Pos>()
ToStringFromStr ==
    /\ inp.op = "pos"
    /\ out = NoOutput
    /\ \E r \in from_str(to_string(inp.pos)) :
          out' = [op |-> "to_string_from_str",
                  text |-> to_string(inp.pos), result |-> r]
    /\ UNCHANGED <<gameVars, boardVars, searchVars, inp, weightVars>>

PosNext == FromStr \/ ToStringFromStr

SpecPos == PosInit /\ [][PosNext]_vars

\* a column letter A..H, in either case
ColumnLetters == (65 .. 72) \cup (97 .. 104)

\* the string is a decimal numeral of an i32, with or without a sign
IsInteger(s) == parse_i32(s).ok

\* C18: parsing gives Empty for the empty string, InvalidAlphabet for a
\* first char that is not a letter, ParseInt when the rest is not an integer,
\* InvalidPos when letter and number do not denote a cell of the 8x8 grid,
\* and the cell in every other case; parsing the displayed text of a position
\* gives that position.
C18_Parse ==
    /\ out.op = "from_str" =>
          IF inp.s = <<>> THEN out.result = Err(<<"Empty">>)
          ELSE IF ~is_alphabetic(inp.s[1])
          THEN /\ ~out.result.ok
               /\ out.result.error[1] = "InvalidAlphabet"
          ELSE IF ~IsInteger(Tail(inp.s))
          THEN /\ ~out.result.ok
               /\ out.result.error[1] = "ParseInt"
          ELSE IF \/ inp.s[1] \notin ColumnLetters
                  \/ parse_i32(Tail(inp.s)).value \notin 1 .. SIZE
          THEN /\ ~out.result.ok
               /\ out.result.error[1] = "InvalidPos"
          ELSE out.result
                 = Ok(((inp.s[1] % 32) - 1)
                        + SIZE * (parse_i32(Tail(inp.s)).value - 1))
    /\ out.op = "to_string_from_str" => out.result = Ok(inp.pos)

\* the string of U+0141 and 1 is parsed as the cell A1
C18_Witness ==
    /\ out.op = "from_str"
    /\ inp.s = <<321, 49>>
    /\ out.result = Ok(A1)

\* C19: for a legal move at pos, flipped(pos) is the board in the frame of
\* the next mover: its mine set is the old others set without the captured
\* cells, its others set is the old mine set with the captured cells and
\* pos, the captured cells are a non-empty subset of the old others set
\* with no cell of the old mine set, no other cell changes and there is
\* exactly one disk more.
C19_NextMoverFrame ==
    \A pos \in flip_candidates(board) :
        LET new == flipped(board, pos)[1]
            captured == NaiveFlips(board, pos)
        IN  /\ captured # {}
            /\ captured \subseteq board.others_disks
            /\ captured \cap board.mine_disks = {}
            /\ new.mine_disks = board.others_disks \ captured
            /\ new.others_disks = board.mine_disks \cup captured \cup {pos}
            /\ \A c \in AllPos \ (captured \cup {pos}) :
                  /\ c \in new.mine_disks <=> c \in board.others_disks
                  /\ c \in new.others_disks <=> c \in board.mine_disks
            /\ count_all_disks(new) = count_all_disks(board) + 1

\* a put in mid-game that captured three cells: the board returned by
\* flipped has the old others set but these three cells as its mine set
C19_Witness ==
    /\ ret.result = <<"Ok">>
    /\ Len(history) >= 2
    /\ LET old == history[Len(history)]
       IN  /\ ret.flipped[1].mine_disks
                 = old.others_disks \ NaiveFlips(old, ret.pos)
           /\ Cardinality(NaiveFlips(old, ret.pos)) = 3
           /\ ret.flipped[1].others_disks
                 = old.mine_disks \cup NaiveFlips(old, ret.pos) \cup {ret.pos}

\* C20: on every board reached from the start, pos is in flip_candidates()
\* exactly when flipped(pos) is Some, which is exactly when can_flip(pos);
\* all_flipped() yields one pair (pos, flipped(pos)) for each candidate and
\* nothing else, so its length is the number of candidates; can_play() is
\* true exactly when there is a candidate.
C20_CandidatesFlippedAgree ==
    LET cs == flip_candidates(board)
        af == all_flipped(board)
    IN  /\ \A pos \in AllPos :
              /\ pos \in cs <=> flipped(board, pos) # None
              /\ flipped(board, pos) # None <=> can_flip(board, pos)
        /\ Len(af) = count(cs)
        /\ \A k \in DOMAIN af :
              /\ af[k][1] \in cs
              /\ Some(af[k][2]) = flipped(board, af[k][1])
        /\ \A pos \in cs :
              Cardinality({k \in DOMAIN af : af[k][1] = pos}) = 1
        /\ can_play(board) <=> cs # {}

\* a board with at least eight candidates and an occupied cell from which
\* a line of opponent disks ends at a disk of the mover
C20_Witness ==
    /\ Len(all_flipped(board)) >= 8
    /\ \E pos \in AllPos :
          /\ Occupied(board, pos)
          /\ ~is_empty(flipped_set_unchecked(board, pos))

---------------------------------------------------------------------------
(* Passes in the search                                                    *)

\* the colour next_move was called with for the board nm.board
NmColor == IF nm.board = board THEN turn_color ELSE Color_reverse(turn_color)

\* the root call of alpha_beta behind nm: its board, depth and window
RootCall ==
    IF nm.kind = "comp"
    THEN [b |-> nm.board, depth |-> nm.depth,
          alpha |-> -I32_MAX, beta |-> I32_MAX]
    ELSE next_move_plan(nm.com, nm.board, NmColor)

\* C22: a node of the search with remaining depth > 0 and no legal move is a
\* pass: when the previous ply was not a pass its value is the negation of
\* the value of the same board with the sides exchanged, searched at the
\* same depth with the window (-beta, -alpha), and no move is returned; when
\* the previous ply was a pass too, the node is a leaf evaluated with the
\* terminal flag set.
C22_PassNode ==
    (nm.kind # "none" /\ RootCall.depth > 0 /\ ~can_play(RootCall.b)) =>
        LET c == RootCall
            r == alpha_beta(nm.ev, c.b, c.depth, c.alpha, c.beta, FALSE)
            sw == alpha_beta(nm.ev, reverse(c.b), c.depth,
                             -c.beta, -c.alpha, TRUE)
        IN  /\ r.pos = None
            /\ r.score = -sw.score
            /\ r.nodes = sw.nodes
            /\ nm.kind = "comp" => (nm.ab.score = r.score /\ nm.ab.pos = None)
            /\ nm.kind = "next_move"
                  => (nm.move.score = r.score /\ nm.move.best_pos = None)
            /\ ~can_play(reverse(c.b))
                  => /\ r.score = -evaluate(nm.ev, reverse(c.b), TRUE)
                     /\ r.evals = 1
                     /\ r.terms = 1

\* a search to depth 2 of a board whose side to move has to pass while the
\* other side has a move, and the two plies of the other side are searched
C22_Witness ==
    /\ nm.kind = "comp"
    /\ nm.depth = 2
    /\ ~can_play(nm.board)
    /\ can_play(reverse(nm.board))
    /\ nm.ab.pos = None
    /\ nm.ab.nodes > 1
    /\ nm.ab.score
         # -alpha_beta(nm.ev, reverse(nm.board), 1, -I32_MAX, I32_MAX, TRUE).score

\* C23: when left <= exact_depth, every leaf evaluation made during
\* next_move passes the terminal flag true (a leaf at depth 0 is a full
\* board, any other leaf is a double pass), so the exact search never reads
\* the pattern weights.
C23_ExactLeavesTerminal ==
    (nm.kind = "next_move"
        /\ count_disk(nm.board, None) <= nm.com.exact_depth) =>
        LET c == RootCall
            r == alpha_beta(nm.ev, c.b, c.depth, c.alpha, c.beta, FALSE)
        IN  /\ nm.move = NextMove(r)
            /\ r.evals >= 1
            /\ r.terms = r.evals

\* an exact search from MaxLeft empty cells that evaluates several leaves
\* and returns a move
C23_Witness ==
    /\ nm.kind = "next_move"
    /\ count_disk(nm.board, None) = MaxLeft
    /\ nm.com.exact_depth = MaxLeft
    /\ nm.move.best_pos # None
    /\ nm.move.visited_nodes > 2

---------------------------------------------------------------------------
(* The accumulators of WeightUpdater                                       *)

\* a slot of one of the two triples of arrays over a flush: emptied when
\* its count is above the threshold, untouched otherwise
FlushedOrKept(cnt, sum, weight, cnt1, sum1, weight1, k) ==
    IF cnt[k] > FREQ_THRESHOLD
    THEN cnt1[k] = 0 /\ sum1[k] = 0
    ELSE cnt1[k] = cnt[k] /\ sum1[k] = sum[k] /\ weight1[k] = weight[k]

\* C24: a weight slot changes only during flush, and only if its count is
\* strictly greater than FREQ_THRESHOLD (10); the count and the sum of a
\* flushed slot are reset to zero, every slot whose count is at most the
\* threshold keeps its weight, count and sum across the flush, and update()
\* never changes a weight.
C24_FlushOnly ==
    [][(wu.op = "updater" /\ wu'.calls = wu.calls + 1) =>
          /\ wu'.last.op = "update" => wu'.weight = wu.weight
          /\ wu'.last.op = "flush" =>
                /\ \A k \in DOMAIN wu.pattern_count :
                      FlushedOrKept(wu.pattern_count, wu.pattern_sum,
                                    wu.weight.pattern, wu'.pattern_count,
                                    wu'.pattern_sum, wu'.weight.pattern, k)
                /\ \A k \in DOMAIN wu.parity_count :
                      FlushedOrKept(wu.parity_count, wu.parity_sum,
                                    wu.weight.parity, wu'.parity_count,
                                    wu'.parity_sum, wu'.weight.parity, k)]_vars

\* after a flush: a pattern slot was flushed (its weight has left the value
\* of the stores and its counters are zero) while a parity slot and another
\* pattern slot, counted at most FREQ_THRESHOLD times, kept their counters
C24_Witness ==
    /\ wu.op = "updater"
    /\ wu.last.op = "flush"
    /\ \E k \in DOMAIN wu.weight.pattern :
          /\ \A s \in 1 .. NumStores :
                wu.weight.pattern[k] # WeightStore(s).pattern[k]
          /\ wu.pattern_count[k] = 0
    /\ \E p \in DOMAIN wu.parity_count :
          wu.parity_count[p] \in 1 .. FREQ_THRESHOLD
    /\ \E k \in DOMAIN wu.pattern_count :
          /\ wu.pattern_count[k] \in 1 .. FREQ_THRESHOLD
          /\ wu.pattern_sum[k] # 0

\* the number of pattern instances of the board b matched to the slot k
Matches(b, k) ==
    Cardinality({nj \in UNION {{<<n, j>> : j \in DOMAIN Generated[n].PATTERNS} :
                                  n \in DOMAIN Generated} :
                    weight_slot(Generated[nj[1]], b, nj[2]) = k})

\* the outcome of a won game, as the trainer hands it to update
TrainerValue == 64 * DISK_VALUE

\* the i32 sums of the updater u hold the diffs of one more update of b
SumsFit(u, b, diff) ==
    /\ \A k \in DOMAIN u.pattern_sum :
          ~add_overflows(u.pattern_sum[k], Matches(b, k) * diff)
    /\ ~add_overflows(u.parity_sum[board_parity_index(b)], diff)

\* C25: between two resets of a slot, every update call adds to the slot's
\* count the exact number of pattern instances matched to it and to its sum
\* the diff of each of them, the parity counters likewise; the 8-bit count
\* never wraps around or overflows.  (The sums are taken to fit their i32.)
C25_CountsExact ==
    [][(wu.op = "updater" /\ wu'.calls = wu.calls + 1
          /\ wu'.last.op = "update" /\ wu'.last.value = TrainerValue
          /\ SumsFit(wu, wu'.last.board,
                     TrainerValue
                       - compute_value(wu.weight, wu'.last.board))) =>
          LET b == wu'.last.board
              diff == TrainerValue - compute_value(wu.weight, b)
          IN  /\ ~wu'.panicked
              /\ \A k \in DOMAIN wu.pattern_count :
                    /\ wu'.pattern_count[k]
                         = wu.pattern_count[k] + Matches(b, k)
                    /\ wu'.pattern_sum[k]
                         = wu.pattern_sum[k] + Matches(b, k) * diff
              /\ \A p \in DOMAIN wu.parity_count :
                    /\ wu'.parity_count[p]
                         = wu.parity_count[p]
                             + (IF p = board_parity_index(b) THEN 1 ELSE 0)
                    /\ wu'.parity_sum[p]
                         = wu.parity_sum[p]
                             + (IF p = board_parity_index(b) THEN diff ELSE 0)]_vars

\* after 64 updates of the initial board without a flush, the count of the
\* slot of the empty Diag4, matched four times by the last call, has wrapped
\* around to zero
C25_Witness ==
    /\ wu.op = "updater"
    /\ wu.last.op = "update"
    /\ wu.last.value = TrainerValue
    /\ wu.last.board = Board_new
    /\ wu.calls = 1
    /\ ~wu.panicked
    /\ \E k \in DOMAIN wu.pattern_count :
          /\ Matches(Board_new, k) = 4
          /\ wu.pattern_count[k] = 0

\* ------------------------------------------------------------------------
\* learn/src/main.rs: the trainer
\* ------------------------------------------------------------------------
\* A board of a self-play game stands here by board.count(None), the number
\* of its empty cells, which is all that the walk of `update` reads of it;
\* the weight store stands by the number of flushes that made it.

\* FLUSH_INTERVAL of the model (10 in main.rs): the games of one batch
NumGames == 3

\* the batches played
MaxBatches == 2

\* the numbers of empty cells with which the modelled games end
FinalLefts == {0, 7, 8, 9, 51}

\* the plies before which the side to move passed in the modelled games
\* (0: the game has no pass)
PassPlies == {0, 10}

\* the history play_game records: one entry per ply played, of the board
\* after the ply and of the colour that played it
History(n, pass) ==
    [k \in 1 .. (SIZE * SIZE - 4) - n |->
        [left |-> (SIZE * SIZE - 4) - k,
         color |-> IF (k + (IF pass > 0 /\ k >= pass THEN 1 ELSE 0)) % 2 = 1
                   THEN "Black" ELSE "White"]]

\* what play_game returns: the last board, the history, and (from update)
\* the value of the last board for black
GameResults ==
    {[left |-> n, history |-> History(n, pass), result |-> 2 * DISK_VALUE] :
        n \in FinalLefts, pass \in PassPlies}

RECURSIVE update_while(_, _, _)
\* while board.count(None) < 8 { board = history.next().unwrap().0 }: taken
\* is the number of entries taken from the reversed history so far
update_while(h, left, taken) ==
    IF left >= 8 THEN [left |-> left, taken |-> taken, panicked |-> FALSE]
    ELSE IF taken >= Len(h)
    THEN [left |-> left, taken |-> taken, panicked |-> TRUE]
    ELSE update_while(h, h[Len(h) - taken].left, taken + 1)

\* for _ in board.count(None)..(SIZE * SIZE - 12): each turn takes the next
\* entry of the reversed history and hands its board to updater.update, as
\* it is with `result` if black played it, reversed with -result if not;
\* the function panics when the history runs out (unwrap) and when no turn
\* was made (the division by count)
update_for(h, w, result) ==
    LET n == IF w.left < SIZE * SIZE - 12
             THEN (SIZE * SIZE - 12) - w.left ELSE 0
    IN  IF w.taken + n > Len(h)
        THEN [pushes |-> <<>>, panicked |-> TRUE]
        ELSE [pushes |->
                 [t \in 1 .. n |->
                     LET e == h[(Len(h) - w.taken) - (t - 1)]
                     IN  [left |-> e.left, reversed |-> e.color # "Black",
                          value |-> IF e.color = "Black" THEN result
                                    ELSE -result]],
              panicked |-> n = 0]

\* fn update(updater, board, history) of main.rs: the calls of
\* updater.update it makes, in their order
learn_update(g) ==
    IF update_while(g.history, g.left, 0).panicked
    THEN [pushes |-> <<>>, panicked |-> TRUE]
    ELSE update_for(g.history, update_while(g.history, g.left, 0), g.result)

Games == 1 .. NumGames

NoGame == [left |-> -1]

\* the trainer after WeightUpdater::new: weight counts the flushes behind
\* the weight store, applied the games whose samples the accumulators took
\* since the last flush
LearnInit ==
    /\ state = "Turn"
    /\ board = Board_new
    /\ turn_color = "Black"
    /\ history = <<>>
    /\ ret = NoRet
    /\ line = 0
    /\ bd = Board_new
    /\ nops = 0
    /\ nm = NoMove
    /\ inp = NoInput
    /\ out = [op |-> "learn", pc |-> "clone", batch |-> 0, evaluator |-> -1,
              st |-> [i \in Games |-> "idle"],
              read |-> [i \in Games |-> -1],
              stored |-> [i \in Games |-> -1],
              game |-> [i \in Games |-> NoGame],
              walk |-> [pushes |-> <<>>, panicked |-> FALSE]]
    /\ wu = [op |-> "trainer", weight |-> 0, applied |-> 0, samples |-> 0]

\* let evaluator = updater.evaluator().clone()
LearnClone ==
    /\ out.op = "learn"
    /\ out.pc = "clone"
    /\ out' = [out EXCEPT !.pc = "play", !.evaluator = wu.weight,
                          !.st = [i \in Games |-> "idle"],
                          !.read = [i \in Games |-> -1],
                          !.stored = [i \in Games |-> -1],
                          !.game = [i \in Games |-> NoGame]]
    /\ UNCHANGED <<gameVars, boardVars, searchVars, inp, weightVars>>

\* a worker of the parallel iterator begins play_game(&evaluator, &com)
PlayStart ==
    /\ out.op = "learn"
    /\ out.pc = "play"
    /\ \E i \in Games :
          /\ out.st[i] = "idle"
          /\ out' = [out EXCEPT !.st[i] = "running"]
    /\ UNCHANGED <<gameVars, boardVars, searchVars, inp, weightVars>>

\* a game ends: read is the evaluator its searches were given, stored the
\* weight store of the updater at that moment
PlayFinish ==
    /\ out.op = "learn"
    /\ out.pc = "play"
    /\ \E i \in Games, g \in GameResults :
          /\ out.st[i] = "running"
          /\ out' = [out EXCEPT !.st[i] = "done", !.game[i] = g,
                                !.read[i] = out.evaluator,
                                !.stored[i] = wu.weight]
    /\ UNCHANGED <<gameVars, boardVars, searchVars, inp, weightVars>>

\* (mutant) the results are handed on as soon as one game has ended
Collect_any ==
    /\ out.op = "learn"
    /\ out.pc = "play"
    /\ \E i \in Games : out.st[i] = "done"
    /\ out' = [out EXCEPT !.pc = "apply"]
    /\ UNCHANGED <<gameVars, boardVars, searchVars, inp, weightVars>>

\* .collect::<Vec<_>>() returns once every game of the batch has ended
Collect ==
    /\ out.op = "learn"
    /\ out.pc = "play"
    /\ \A i \in Games : out.st[i] = "done"
    /\ out' = [out EXCEPT !.pc = "apply"]
    /\ UNCHANGED <<gameVars, boardVars, searchVars, inp, weightVars>>

\* .into_iter().for_each(..): update(&mut updater, &board, &history) of the
\* next game in the order of the batch; a panic of update ends the trainer
ApplyUpdate ==
    /\ out.op = "learn"
    /\ out.pc = "apply"
    /\ wu.applied < NumGames
    /\ out.st[wu.applied + 1] = "done"
    /\ out' = [out EXCEPT
                  !.walk = learn_update(out.game[wu.applied + 1]),
                  !.pc = IF learn_update(out.game[wu.applied + 1]).panicked
                         THEN "panicked" ELSE "apply"]
    /\ wu' = [wu EXCEPT
                 !.applied = @ + 1,
                 !.samples =
                     @ + Len(learn_update(out.game[wu.applied + 1]).pushes)]
    /\ UNCHANGED <<gameVars, boardVars, searchVars, inp>>

\* updater.flush() after the for_each, and the end of the batch
LearnFlush ==
    /\ out.op = "learn"
    /\ out.pc = "apply"
    /\ wu.applied = NumGames
    /\ wu' = [wu EXCEPT !.weight = @ + 1, !.applied = 0, !.samples = 0]
    /\ out' = [out EXCEPT !.batch = @ + 1,
                          !.pc = IF out.batch + 1 < MaxBatches
                                 THEN "clone" ELSE "done"]
    /\ UNCHANGED <<gameVars, boardVars, searchVars, inp>>

LearnNext ==
    \/ LearnClone
    \/ PlayStart
    \/ PlayFinish
    \/ Collect
    \/ ApplyUpdate
    \/ LearnFlush

SpecLearn == LearnInit /\ [][LearnNext]_vars

\* C26: in every batch all games read the weight snapshot taken before the
\* batch starts and the weight store does not change while a game is
\* running; the updates of the games are applied to the one trainer one at a
\* time, only after every game of the batch has ended, and flush runs only
\* after all updates of the batch were applied.
C26_BatchOrder ==
    [][out.op = "learn" =>
          /\ (\E i \in Games : out.st[i] = "running") => wu' = wu
          /\ \A i \in Games :
                out'.st[i] = "done" =>
                    /\ out'.read[i] = out'.evaluator
                    /\ out'.stored[i] = out'.evaluator
          /\ (wu'.applied # wu.applied /\ wu'.weight = wu.weight) =>
                /\ \A i \in Games : out.st[i] = "done"
                /\ wu'.applied = wu.applied + 1
          /\ wu'.weight # wu.weight =>
                /\ \A i \in Games : out.st[i] = "done"
                /\ wu.applied = NumGames]_vars

\* the second batch: its games read the weights the first flush left, all
\* of them have ended and the first two, two different games, are applied
C26_Witness ==
    /\ out.op = "learn"
    /\ out.batch = 1
    /\ out.pc = "apply"
    /\ out.evaluator = 1
    /\ wu.applied = 2
    /\ wu.samples > 0
    /\ \A i \in Games : out.read[i] = 1
    /\ out.game[1] # out.game[2]

\* C27: for a finished game the trainer's update pushes one sample per
\* recorded position while walking the history backward, beginning with the
\* recorded position that has 8 empty cells and stopping before the last 12
\* plies the walk reaches (the first 12 of the game); no other recorded
\* position is pushed.
C27_Walk ==
    (out.op = "learn" /\ wu.applied > 0 /\ out.game[wu.applied].left <= 8) =>
        LET p == out.walk.pushes
        IN  /\ ~out.walk.panicked
            /\ Len(p) > 0
            /\ p[1].left = 8
            /\ \A t \in DOMAIN p : p[t].left = 8 + (t - 1)
            /\ p[Len(p)].left = ((SIZE * SIZE - 4) - 12) - 1

\* the update of a game played to the full board: its first sample is the
\* position with 9 empty cells and its last, the 44th, the position with 52
C27_Witness ==
    /\ out.op = "learn"
    /\ wu.applied > 0
    /\ out.game[wu.applied].left = 0
    /\ Len(out.walk.pushes) = 44
    /\ out.walk.pushes[1].left = 9
    /\ out.walk.pushes[44].left = SIZE * SIZE - 12

---------------------------------------------------------------------------
(* The turn of the Game                                                    *)

\* one step of the game: the side to move has a move before and after it
\* unless the game is over; a finished game stays finished; after a successful
\* put the turn is the opponent's if the opponent has a move on the new
\* board, the mover's again if only the mover has one, and the game is over
\* exactly when neither has one
C28_Step ==
    /\ ~is_game_over => can_play(board)
    /\ state' # "GameOver" => can_play(board')
    /\ state = "GameOver" => UNCHANGED <<state, board, turn_color, history>>
    /\ ret'.result = <<"Ok">> =>
          LET b1 == flipped(board, ret'.pos)[1]
              opponent == flip_candidates(b1) # {}
              mover == flip_candidates(reverse(b1)) # {}
          IN  /\ opponent =>
                    /\ state' = "Turn"
                    /\ turn_color' = Color_reverse(turn_color)
                    /\ board' = b1
              /\ (~opponent /\ mover) =>
                    /\ state' = "Turn"
                    /\ turn_color' = turn_color
                    /\ board' = reverse(b1)
              /\ state' = "GameOver" <=> (~opponent /\ ~mover)

\* C28: after any sequence of put_disk calls on a new game, whenever the
\* game is not over the side to move has a legal move (can_play()); after a
\* successful put the turn passes to the opponent if the opponent can play,
\* stays with the mover if only the mover can, and the state is GameOver
\* exactly when neither can; once GameOver, the state never changes again.
C28_TurnHasMove == [][C28_Step]_vars

\* after a put the opponent had no move and the turn stayed with the mover
C28_Witness ==
    /\ ret.result = <<"Ok">>
    /\ ~is_game_over
    /\ ~can_play(ret.flipped[1])
    /\ board = reverse(ret.flipped[1])
    /\ can_play(board)
    /\ Len(history) = 8

---------------------------------------------------------------------------
(* The Game and a board that holds its disks by colour                     *)

\* the board of the game by colour
AbsBoard == ColorBoard(board, turn_color)

\* a move of the colour c at pos on a board by colour: pos and the cells
\* the line walk captures take the colour c, no other cell changes
Othello(abs, c, pos) ==
    LET own == IF c = "Black" THEN abs.black ELSE abs.white
        opp == IF c = "Black" THEN abs.white ELSE abs.black
        captured == NaiveFlips(Board(own, opp), pos)
    IN  IF c = "Black"
        THEN [black |-> own \cup captured \cup {pos}, white |-> opp \ captured]
        ELSE [black |-> opp \ captured, white |-> own \cup captured \cup {pos}]

AbsDisk(abs, pos) ==
    IF pos \in abs.black THEN Some("Black")
    ELSE IF pos \in abs.white THEN Some("White")
    ELSE None

\* one step of the refinement: a new game shows the four disks of the
\* opening; a successful put is the move of the colour turn_color() reported
\* before it, whether a pass followed it or not; a rejected put changes no
\* cell; get_disk reads the board by colour
C29_Step ==
    /\ history = <<>> =>
          AbsBoard = [black |-> {E4, D5}, white |-> {D4, E5}]
    /\ ret'.result = <<"Ok">> =>
          /\ Game_turn_color = Some(turn_color)
          /\ AbsBoard' = Othello(AbsBoard, turn_color, ret'.pos)
    /\ ret'.result # <<"Ok">> => AbsBoard' = AbsBoard
    /\ \A pos \in AllPos :
          /\ Game_get_disk(pos) = AbsDisk(AbsBoard, pos)
          /\ Game_get_disk(pos)' = AbsDisk(AbsBoard', pos)

\* C29: the Game's relative representation (mine/others and turn_color)
\* refines a board by colour: after any sequence of successful puts and
\* automatic passes from Game::new(), get_disk(pos) is the colour on the
\* board by colour on which the same cells were played by the colour
\* turn_color() reported before each move; a put changes the colour of the
\* played cell and of the captured cells only, a pass that of no cell.
C29_Refines == [][C29_Step]_vars

\* after a put that was followed by a pass: the played cell shows the colour
\* of the side that is to move again, and a captured cell changed to it
C29_Witness ==
    /\ ret.result = <<"Ok">>
    /\ ~is_game_over
    /\ board = reverse(ret.flipped[1])
    /\ Game_get_disk(ret.pos) = Some(turn_color)
    /\ \E c \in NaiveFlips(history[Len(history)], ret.pos) :
          Game_get_disk(c) = Some(turn_color)

---------------------------------------------------------------------------
(* The end of every game                                                   *)

\* the players that play a legal move whenever the game is not over: the
\* replayed games and the players that pick one legal move by its rank
LiveInit == Init /\ line # 0

\* the steps of PutLegal, told by the guard of PutLegal and by the board
\* put_disk pushes onto the history
LegalPut == FreeMoves # {} /\ history' = Append(history, board)

\* while the player has a legal move its put is taken in the end; rejected
\* puts may come between the legal ones
SpecLive == LiveInit /\ [][Next]_vars /\ WF_vars(PutLegal)

\* a successful put adds one disk, a rejected put none
C30_Step ==
    count_all_disks(board') =
        count_all_disks(board) + (IF ret'.result = <<"Ok">> THEN 1 ELSE 0)

\* C30: every game terminates: from Game::new() each successful put adds
\* exactly one disk, the number of puts made plus four is the number of
\* disks on the board, so at most 60 puts succeed; and when a legal move is
\* played whenever the game is not over, the state GameOver is reached.
C30_Terminates ==
    /\ [][C30_Step]_vars
    /\ [](/\ Len(history) + 4 = count_all_disks(board)
          /\ Len(history) <= SIZE * SIZE - 4)
    /\ <>is_game_over

\* a game played to its end on a full board after 60 puts
C30_Witness ==
    /\ is_game_over
    /\ Len(history) = SIZE * SIZE - 4
    /\ count_all_disks(board) = SIZE * SIZE
    /\ line > 0

===========================================================================
